---- MODULE Spec2Model ----
(***************************************************************************)
(* Model of the event-processing engine of src/system/core-system.ts:      *)
(* the System class (component registry, FIFO event queue, processEvents)  *)
(* and the Component class (instance store, handler registry).             *)
(*                                                                         *)
(* Records of the program (instance data, event payloads, handler results, *)
(* send entries) are functions from key strings to values; an optional key *)
(* is a key that may be missing from the DOMAIN.  A Map is a sequence of   *)
(* [key, value] entries in insertion order.                                *)
(***************************************************************************)
EXTENDS Integers, Sequences, FiniteSets, TLC

VARIABLES
    components,     \* System.components : Map<ComponentName, Component>, as
                    \*   a sequence of [name, dataModel] in insertion order
    instances,      \* Component.instances, per component name: a sequence
                    \*   of [id, data] in insertion order
    eventHandlers,  \* Component.eventHandlers, per component name: a
                    \*   function from the registered event names to handlers
    eventQueue,     \* System.eventQueue
    pc,             \* position of the processEvents() call
    current,        \* the queue entry shifted by the running iteration
    result,         \* the settled value of the handler's promise
    outcome,        \* how the last processEvents() promise settled
    appended,       \* history: every entry ever pushed on eventQueue, in
                    \*   push order; a queue entry carries its position in
                    \*   this log as the ghost field seq
    handled,        \* history: seq of the entries whose handler was
                    \*   invoked, in invocation order
    queued,         \* history: number of queueEvent calls by the caller
    calls,          \* history: processEvents calls by the caller (0, 1, 2 = more)
    frames,         \* the Component.processEvent calls in progress, the
                    \*   innermost last
    ret,            \* how the last call made directly on a component
                    \*   (processEvent, createInstance, createInstanceInOrder,
                    \*   setInstanceParent, clearInstances) settled
    invoked,        \* history: the handlers invoked by processEvent, as
                    \*   [component, instanceId, event], in invocation order
    opCount,        \* history: number of calls made directly on components
    created,        \* history: the instances createInstanceInOrder has
                    \*   created, as [component, id], in creation order
    onCalls,        \* history: the on(event, handler) calls made, as
                    \*   [component, event, handler], in call order
    usedInstanceIds \* the typed manager's set of accepted instance ids

vars == <<components, instances, eventHandlers, eventQueue, pc, current,
          result, outcome, appended, handled, queued, calls, frames, ret,
          invoked, opCount, created, onCalls, usedInstanceIds>>

\* the histories of the callers that do not dispatch events
asideVars == <<created, onCalls, usedInstanceIds>>

\* the variables System.queueEvent and System.processEvents never touch
directVars == <<frames, ret, invoked, opCount, asideVars>>

(***************************************************************************)
(* Bounds of the model.                                                    *)
(***************************************************************************)
\* number of queueEvent calls made by the caller in one behaviour
MaxQueued == 3
\* number of entries ever pushed on the queue (caller's and handlers')
MaxAppended == 4

(***************************************************************************)
(* Values.                                                                 *)
(***************************************************************************)
\* the JavaScript value undefined
Undefined == "undefined"
\* the empty object {}
EmptyObject == <<>>
\* no entry / no result / no error
None == [none |-> TRUE]

\* obj[key] of JavaScript: undefined when the key is absent
Get(obj, key) == IF key \in DOMAIN obj THEN obj[key] ELSE Undefined

\* Object.assign(target, source) and the object spread {...target, ...source}
ObjectAssign(target, source) ==
    [k \in DOMAIN target \cup DOMAIN source |->
        IF k \in DOMAIN source THEN source[k] ELSE target[k]]

Range(s) == {s[i] : i \in DOMAIN s}

(***************************************************************************)
(* Map helpers (insertion-ordered sequence of entries).                    *)
(***************************************************************************)
MapHas(m, key) == \E i \in DOMAIN m : m[i].id = key

MapGet(m, key) == m[CHOOSE i \in DOMAIN m : m[i].id = key].data

\* Map.set: replaces the value in place when the key exists, appends otherwise
MapSet(m, key, value) ==
    IF MapHas(m, key)
    THEN LET i == CHOOSE j \in DOMAIN m : m[j].id = key
         IN  SubSeq(m, 1, i - 1) \o <<[id |-> key, data |-> value]>>
                \o SubSeq(m, i + 1, Len(m))
    ELSE Append(m, [id |-> key, data |-> value])

MapKeys(m) == [i \in DOMAIN m |-> m[i].id]

(***************************************************************************)
(* Identifiers of the model.                                               *)
(***************************************************************************)
\* childInstanceId.split("_")[0]: the text before the first underscore
Prefix(id) ==
    CASE id = "person_1" -> "person"
      [] id = "person_2" -> "person"
      [] id \in {"fridge_1", "fridge_2"} -> "fridge"
      [] id \in {"parent_1", "parent_2", "parent_9"} -> "parent"
      [] id \in {"child_1", "child_2", "child_3"} -> "child"
      [] id = "grandchild_1" -> "grandchild"
      [] id \in {"system_1", "system_instance"} -> "system"
      [] id = "parent_susan" -> "parent"
      [] id = "child_thomas" -> "child"
      [] id = "grandchild_richard" -> "grandchild"
      [] id = "nonPropagatingChild_test" -> "nonPropagatingChild"
      [] id = "ghost_1" -> "ghost"
      [] OTHER -> id

\* JavaScript truthiness of an identifier-valued field
Truthy(v) == v # Undefined /\ v # ""

(***************************************************************************)
(* System: component registry.                                             *)
(***************************************************************************)
\* System.getComponent(name) !== undefined
HasComponent(comps, name) == MapHas(comps, name)

\* System.createComponent(name, dataModel) without a parent: a fresh
\* Component (no instances, no handlers, no parent, no children)
NewComponent(dataModel) ==
    [dataModel |-> dataModel, parent |-> Undefined, children |-> <<>>]

\* System.createComponent(name, dataModel, parent): when the parent is
\* registered the component records it (setParent) and the parent records
\* the component among its children (addChild)
CreateChildComponent(comps, name, dataModel, parent) ==
    LET registered == MapSet(comps, name, NewComponent(dataModel))
    IN  IF Truthy(parent) /\ MapHas(registered, parent)
        THEN LET linked == MapSet(registered, name,
                              [MapGet(registered, name) EXCEPT !.parent = parent])
                 p == MapGet(linked, parent)
             IN  IF name \in Range(p.children) THEN linked
                 ELSE MapSet(linked, parent,
                             [p EXCEPT !.children = Append(@, name)])
        ELSE registered

\* Component.setParent(parent) on the component name: records the name of
\* the parent and nothing else
SetParent(comps, name, parent) ==
    MapSet(comps, name, [MapGet(comps, name) EXCEPT !.parent = parent])

\* Component.getParent(): the name of the declared parent component when it
\* is registered, undefined otherwise
GetParent(comps, name) ==
    LET parent == MapGet(comps, name).parent
    IN  IF Truthy(parent) /\ HasComponent(comps, parent) THEN parent
        ELSE Undefined

\* Component.shouldPropagateToParent(event)
ShouldPropagateToParent(event) ==
    event \notin {"init", "destroy", "update", "childUpdate"}

(***************************************************************************)
(* Component: instance store.                                              *)
(***************************************************************************)
\* Component.getInstance(instanceId) !== undefined
HasInstance(insts, comp, instanceId) == MapHas(insts[comp], instanceId)

\* Component.getInstance(instanceId)
GetInstance(insts, comp, instanceId) ==
    IF MapHas(insts[comp], instanceId) THEN MapGet(insts[comp], instanceId)
                                       ELSE Undefined

\* updateInstance storing the update in place of the record
UpdateInstanceReplace(insts, comp, instanceId, update) ==
    [insts EXCEPT ![comp] = MapSet(@, instanceId, update)]

\* updateInstance merging nested objects key by key instead of replacing them
UpdateInstanceDeepMerge(insts, comp, instanceId, update) ==
    LET old == MapGet(insts[comp], instanceId)
        merged == [k \in DOMAIN old \cup DOMAIN update |->
                     IF k \notin DOMAIN update THEN old[k]
                     ELSE IF k = "stats" /\ k \in DOMAIN old
                          THEN ObjectAssign(old[k], update[k])
                          ELSE update[k]]
    IN  [insts EXCEPT ![comp] = MapSet(@, instanceId, merged)]

\* updateInstance applied to the instance of that id in every component
UpdateInstanceEverywhere(insts, comp, instanceId, update) ==
    [c \in DOMAIN insts |->
        IF MapHas(insts[c], instanceId)
        THEN MapSet(insts[c], instanceId,
                    ObjectAssign(MapGet(insts[c], instanceId), update))
        ELSE insts[c]]

\* updateInstance pushing the merged record as a new entry of the store
\* instead of replacing the entry it has
UpdateInstancePushes(insts, comp, instanceId, update) ==
    [insts EXCEPT ![comp] =
        Append(@, [id |-> instanceId,
                   data |-> ObjectAssign(MapGet(@, instanceId), update)])]

\* Component.updateInstance(instanceId, update), the instance being present
UpdateInstance(insts, comp, instanceId, update) ==
    [insts EXCEPT ![comp] =
        MapSet(@, instanceId, ObjectAssign(MapGet(@, instanceId), update))]

\* system.getComponents().flatMap(comp => comp.instances.entries())
RECURSIVE FlatMapInstances(_, _, _)
FlatMapInstances(comps, insts, i) ==
    IF i > Len(comps) THEN <<>>
    ELSE insts[comps[i].id] \o FlatMapInstances(comps, insts, i + 1)

RECURSIVE SiblingIndexScan(_, _, _, _, _)
SiblingIndexScan(entries, i, instanceId, siblings, index) ==
    IF i > Len(entries) THEN Len(siblings) - 1
    ELSE IF entries[i].id = instanceId THEN index
    ELSE SiblingIndexScan(entries, i + 1, instanceId, siblings,
            IF entries[i].id \in Range(siblings) THEN index + 1 ELSE index)

\* Component.determineSiblingIndex(instanceId, siblings)
DetermineSiblingIndex(comps, insts, instanceId, siblings) ==
    SiblingIndexScan(FlatMapInstances(comps, insts, 1), 1, instanceId,
                     siblings, 0)

\* the siblings.forEach of createInstance: add instanceId to the sibling
\* list of each sibling, found through the prefix of its id
RECURSIVE AddToSiblings(_, _, _, _, _)
AddToSiblings(comps, insts, siblings, i, instanceId) ==
    IF i > Len(siblings) THEN insts
    ELSE LET siblingId == siblings[i]
             siblingComponent == Prefix(siblingId)
             found == /\ HasComponent(comps, siblingComponent)
                      /\ HasInstance(insts, siblingComponent, siblingId)
             inst == MapGet(insts[siblingComponent], siblingId)
             list == IF "siblingInstanceIds" \in DOMAIN inst
                     THEN inst.siblingInstanceIds ELSE <<>>
             list2 == IF instanceId \in Range(list) THEN list
                      ELSE Append(list, instanceId)
             next == IF found
                     THEN [insts EXCEPT ![siblingComponent] =
                             MapSet(@, siblingId,
                                    ObjectAssign(inst,
                                       [siblingInstanceIds |-> list2]))]
                     ELSE insts
         IN  AddToSiblings(comps, next, siblings, i + 1, instanceId)

\* Component.createInstance(componentId, instanceId, data), the component
\* being registered
CreateInstance(comps, insts, componentId, instanceId, data) ==
    LET component == MapGet(comps, componentId)
        instanceData == ObjectAssign(component.dataModel, data)
        stored == [insts EXCEPT ![componentId] =
                      MapSet(@, instanceId, instanceData)]
        parentId == Get(instanceData, "parentInstanceId")
        IsSibling(e) ==
            /\ e.id # instanceId
            /\ IF Truthy(parentId)
               THEN Get(e.data, "parentInstanceId") = parentId
               ELSE ~Truthy(Get(e.data, "parentInstanceId"))
        siblings == MapKeys(SelectSeq(FlatMapInstances(comps, stored, 1),
                                      IsSibling))
        bookkeeping ==
            [siblingInstanceIds |-> siblings,
             siblingIndex |-> DetermineSiblingIndex(comps, stored, instanceId,
                                                    siblings)]
        withSiblings == [stored EXCEPT ![componentId] =
            MapSet(@, instanceId, ObjectAssign(instanceData, bookkeeping))]
    IN  AddToSiblings(comps, withSiblings, siblings, 1, instanceId)

\* seq.indexOf(x), 1-based; 0 when x is not in seq
IndexOf(seq, x) ==
    IF x \in Range(seq) THEN CHOOSE i \in DOMAIN seq :
                                /\ seq[i] = x
                                /\ \A j \in 1 .. (i - 1) : seq[j] # x
    ELSE 0

\* Component.getInstanceCount()
GetInstanceCount(insts, comp) == Len(insts[comp])

\* createInstanceInOrder looking only at the component listed next
CreateInstanceInOrderNextOnly(comps, insts, name, instanceId, data, order) ==
    LET currentIndex == IndexOf(order, name)
        later == {i \in DOMAIN order :
                    /\ i = currentIndex + 1
                    /\ HasComponent(comps, order[i])
                    /\ GetInstanceCount(insts, order[i]) > 0}
    IN  IF currentIndex = 0
        THEN [insts |-> insts, error |-> "not found in COMPONENT_ORDER"]
        ELSE IF later # {}
        THEN [insts |-> insts,
              error |-> "Cannot create instance after later instances"]
        ELSE [insts |-> CreateInstance(comps, insts, name, instanceId, data),
              error |-> ""]

\* createInstanceInOrder without the check of the later components
CreateInstanceInOrderUnchecked(comps, insts, name, instanceId, data, order) ==
    IF IndexOf(order, name) = 0
    THEN [insts |-> insts, error |-> "not found in COMPONENT_ORDER"]
    ELSE [insts |-> CreateInstance(comps, insts, name, instanceId, data),
          error |-> ""]

\* createInstanceInOrder looking at the components listed before `name`
CreateInstanceInOrderEarlier(comps, insts, name, instanceId, data, order) ==
    LET currentIndex == IndexOf(order, name)
        earlier == {i \in DOMAIN order :
                      /\ i < currentIndex
                      /\ HasComponent(comps, order[i])
                      /\ GetInstanceCount(insts, order[i]) > 0}
    IN  IF currentIndex = 0
        THEN [insts |-> insts, error |-> "not found in COMPONENT_ORDER"]
        ELSE IF earlier # {}
        THEN [insts |-> insts,
              error |-> "Cannot create instance after later instances"]
        ELSE [insts |-> CreateInstance(comps, insts, name, instanceId, data),
              error |-> ""]

\* Component.createInstanceInOrder(instanceId, data, COMPONENT_ORDER) on the
\* component `name`: the error thrown ("" when none) and the stores left
CreateInstanceInOrder(comps, insts, name, instanceId, data, order) ==
    LET currentIndex == IndexOf(order, name)
        later == {i \in DOMAIN order :
                    /\ i > currentIndex
                    /\ HasComponent(comps, order[i])
                    /\ GetInstanceCount(insts, order[i]) > 0}
    IN  IF currentIndex = 0
        THEN [insts |-> insts, error |-> "not found in COMPONENT_ORDER"]
        ELSE IF later # {}
        THEN [insts |-> insts,
              error |-> "Cannot create instance after later instances"]
        ELSE [insts |-> CreateInstance(comps, insts, name, instanceId, data),
              error |-> ""]

\* Component.clearInstances() on the component comp
ClearInstances(insts, comp) == [insts EXCEPT ![comp] = <<>>]

\* system.getComponents() x comp.instances.entries(): the [component, id]
\* pairs of all instances, in component order then insertion order
RECURSIVE FlatKeys(_, _, _)
FlatKeys(comps, insts, i) ==
    IF i > Len(comps) THEN <<>>
    ELSE [k \in DOMAIN insts[comps[i].id] |->
             [component |-> comps[i].id, id |-> insts[comps[i].id][k].id]]
         \o FlatKeys(comps, insts, i + 1)

\* seq.filter(x => x !== id)
Without(seq, id) == LET Keep(x) == x # id IN SelectSeq(seq, Keep)

\* inst.siblingInstanceIds ?? []
SiblingsOf(inst) ==
    IF "siblingInstanceIds" \in DOMAIN inst THEN inst.siblingInstanceIds
    ELSE <<>>

\* one record of the stores with some fields assigned
Assign(insts, comp, id, fields) ==
    [insts EXCEPT ![comp] =
        MapSet(@, id, ObjectAssign(MapGet(@, id), fields))]

\* the forEach of setInstanceParent over every instance of every component:
\* an instance that is the child or has another parent loses the child from
\* its sibling list and gets its index recomputed; an instance under the
\* same parent is pushed on the child's list and gets the child pushed on
\* its own list, with the indices recomputed
RECURSIVE SiblingRebuild(_, _, _, _, _, _, _)
SiblingRebuild(comps, insts, keys, k, childComp, childId, parentId) ==
    IF k > Len(keys) THEN insts
    ELSE LET comp == keys[k].component
             id == keys[k].id
             inst == MapGet(insts[comp], id)
             next ==
               IF id = childId \/ Get(inst, "parentInstanceId") # parentId
               THEN LET pruned ==
                          IF "siblingInstanceIds" \notin DOMAIN inst
                          THEN insts
                          ELSE Assign(insts, comp, id,
                                 [siblingInstanceIds |->
                                    Without(inst.siblingInstanceIds, childId)])
                        list == SiblingsOf(MapGet(pruned[comp], id))
                    IN  Assign(pruned, comp, id,
                          [siblingIndex |->
                             DetermineSiblingIndex(comps, pruned, id, list)])
               ELSE LET child == MapGet(insts[childComp], childId)
                        childList == Append(SiblingsOf(child), id)
                        s1 == Assign(insts, childComp, childId,
                                [siblingInstanceIds |-> childList,
                                 siblingIndex |->
                                    DetermineSiblingIndex(comps, insts,
                                                          childId, childList)])
                        mine == SiblingsOf(MapGet(s1[comp], id))
                    IN  IF childId \in Range(mine) THEN s1
                        ELSE Assign(s1, comp, id,
                               [siblingInstanceIds |-> Append(mine, childId),
                                siblingIndex |->
                                   DetermineSiblingIndex(comps, s1, id,
                                      Append(mine, childId))])
         IN  SiblingRebuild(comps, next, keys, k + 1, childComp, childId,
                            parentId)

\* a setInstanceParent that refuses to link an instance under itself
SetInstanceParentRefusesSelf(comps, insts, childInstanceId, parentInstanceId) ==
    LET childComp == Prefix(childInstanceId)
        parentComp == Prefix(parentInstanceId)
    IN  IF ~HasComponent(comps, childComp)
        THEN [insts |-> insts, error |-> "Child component not found"]
        ELSE IF ~HasInstance(insts, childComp, childInstanceId)
        THEN [insts |-> insts, error |-> "Child instance not found"]
        ELSE IF ~HasComponent(comps, parentComp)
        THEN [insts |-> insts, error |-> "Parent component not found"]
        ELSE IF ~HasInstance(insts, parentComp, parentInstanceId)
        THEN [insts |-> insts, error |-> "Parent instance not found"]
        ELSE IF childInstanceId = parentInstanceId
        THEN [insts |-> insts, error |-> "Instance cannot be its own parent"]
        ELSE
        LET s1 == Assign(insts, childComp, childInstanceId,
                         [parentInstanceId |-> parentInstanceId])
            parent == MapGet(s1[parentComp], parentInstanceId)
            children == IF "childInstanceIds" \in DOMAIN parent
                        THEN parent.childInstanceIds ELSE <<>>
            s2 == Assign(s1, parentComp, parentInstanceId,
                         [childInstanceIds |->
                             IF childInstanceId \in Range(children)
                             THEN children
                             ELSE Append(children, childInstanceId)])
            s3 == Assign(s2, childComp, childInstanceId,
                         [siblingInstanceIds |-> <<>>])
        IN  [insts |-> SiblingRebuild(comps, s3, FlatKeys(comps, s3, 1), 1,
                                      childComp, childInstanceId,
                                      parentInstanceId),
             error |-> ""]

\* a setInstanceParent that stores the child's parentInstanceId before it
\* looks the parent up
SetInstanceParentLinksFirst(comps, insts, childInstanceId, parentInstanceId) ==
    LET childComp == Prefix(childInstanceId)
        parentComp == Prefix(parentInstanceId)
        linked == Assign(insts, childComp, childInstanceId,
                         [parentInstanceId |-> parentInstanceId])
    IN  IF ~HasComponent(comps, childComp)
        THEN [insts |-> insts, error |-> "Child component not found"]
        ELSE IF ~HasInstance(insts, childComp, childInstanceId)
        THEN [insts |-> insts, error |-> "Child instance not found"]
        ELSE IF ~HasComponent(comps, parentComp)
        THEN [insts |-> linked, error |-> "Parent component not found"]
        ELSE IF ~HasInstance(insts, parentComp, parentInstanceId)
        THEN [insts |-> linked, error |-> "Parent instance not found"]
        ELSE
        LET parent == MapGet(linked[parentComp], parentInstanceId)
            children == IF "childInstanceIds" \in DOMAIN parent
                        THEN parent.childInstanceIds ELSE <<>>
            s2 == Assign(linked, parentComp, parentInstanceId,
                         [childInstanceIds |->
                             IF childInstanceId \in Range(children)
                             THEN children
                             ELSE Append(children, childInstanceId)])
            s3 == Assign(s2, childComp, childInstanceId,
                         [siblingInstanceIds |-> <<>>])
        IN  [insts |-> SiblingRebuild(comps, s3, FlatKeys(comps, s3, 1), 1,
                                      childComp, childInstanceId,
                                      parentInstanceId),
             error |-> ""]

\* a setInstanceParent that pushes the child on the parent's list of children
\* without looking whether it is listed already
SetInstanceParentPushes(comps, insts, childInstanceId, parentInstanceId) ==
    LET childComp == Prefix(childInstanceId)
        parentComp == Prefix(parentInstanceId)
    IN  IF ~HasComponent(comps, childComp)
        THEN [insts |-> insts, error |-> "Child component not found"]
        ELSE IF ~HasInstance(insts, childComp, childInstanceId)
        THEN [insts |-> insts, error |-> "Child instance not found"]
        ELSE IF ~HasComponent(comps, parentComp)
        THEN [insts |-> insts, error |-> "Parent component not found"]
        ELSE IF ~HasInstance(insts, parentComp, parentInstanceId)
        THEN [insts |-> insts, error |-> "Parent instance not found"]
        ELSE
        LET s1 == Assign(insts, childComp, childInstanceId,
                         [parentInstanceId |-> parentInstanceId])
            parent == MapGet(s1[parentComp], parentInstanceId)
            children == IF "childInstanceIds" \in DOMAIN parent
                        THEN parent.childInstanceIds ELSE <<>>
            s2 == Assign(s1, parentComp, parentInstanceId,
                         [childInstanceIds |->
                             Append(children, childInstanceId)])
            s3 == Assign(s2, childComp, childInstanceId,
                         [siblingInstanceIds |-> <<>>])
        IN  [insts |-> SiblingRebuild(comps, s3, FlatKeys(comps, s3, 1), 1,
                                      childComp, childInstanceId,
                                      parentInstanceId),
             error |-> ""]

\* Component.setInstanceParent(childInstanceId, parentInstanceId): the error
\* thrown ("" when none) and the stores left
SetInstanceParent(comps, insts, childInstanceId, parentInstanceId) ==
    LET childComp == Prefix(childInstanceId)
        parentComp == Prefix(parentInstanceId)
    IN  IF ~HasComponent(comps, childComp)
        THEN [insts |-> insts, error |-> "Child component not found"]
        ELSE IF ~HasInstance(insts, childComp, childInstanceId)
        THEN [insts |-> insts, error |-> "Child instance not found"]
        ELSE IF ~HasComponent(comps, parentComp)
        THEN [insts |-> insts, error |-> "Parent component not found"]
        ELSE IF ~HasInstance(insts, parentComp, parentInstanceId)
        THEN [insts |-> insts, error |-> "Parent instance not found"]
        ELSE
        LET s1 == Assign(insts, childComp, childInstanceId,
                         [parentInstanceId |-> parentInstanceId])
            parent == MapGet(s1[parentComp], parentInstanceId)
            children == IF "childInstanceIds" \in DOMAIN parent
                        THEN parent.childInstanceIds ELSE <<>>
            s2 == Assign(s1, parentComp, parentInstanceId,
                         [childInstanceIds |->
                             IF childInstanceId \in Range(children)
                             THEN children
                             ELSE Append(children, childInstanceId)])
            s3 == Assign(s2, childComp, childInstanceId,
                         [siblingInstanceIds |-> <<>>])
        IN  [insts |-> SiblingRebuild(comps, s3, FlatKeys(comps, s3, 1), 1,
                                      childComp, childInstanceId,
                                      parentInstanceId),
             error |-> ""]

(***************************************************************************)
(* Component: handler registry.                                            *)
(***************************************************************************)
\* a registry that keeps the handler it already has for the event
OnKeepsFirst(handlers, event, handler) ==
    [e \in DOMAIN handlers \cup {event} |->
        IF e \in DOMAIN handlers THEN handlers[e] ELSE handler]

\* Component.on(event, handler): Map.set on the component's handler map
On(handlers, event, handler) ==
    [e \in DOMAIN handlers \cup {event} |->
        IF e = event THEN handler ELSE handlers[e]]

\* Component.getEventHandler(eventName) !== undefined
HasHandler(handlers, comp, eventName) == eventName \in DOMAIN handlers[comp]

(***************************************************************************)
(* Handlers.  A handler is an async function (instanceId, data, component) *)
(* whose promise resolves to {update?, send?} or rejects with an error.    *)
(* The result is a function with the optional keys "update" and "send"; a  *)
(* rejection is [throw |-> message].  comp is the name of the component    *)
(* handle the handler is given, insts the instance stores it reads.        *)
(***************************************************************************)
HandlerEvent1(instanceId, data, comp, insts) ==
    [send |-> <<[event |-> "EVENT_2_OCCURRED", data |-> EmptyObject]>>]

HandlerEvent2(instanceId, data, comp, insts) ==
    [send |-> <<[event |-> "EVENT_3_OCCURRED", data |-> EmptyObject]>>]

HandlerEvent3(instanceId, data, comp, insts) == EmptyObject

HandlerChainAStarted(instanceId, data, comp, insts) ==
    [send |-> <<[event |-> "CHAIN_A_COMPLETED", data |-> EmptyObject]>>]

HandlerChainBStarted(instanceId, data, comp, insts) ==
    [send |-> <<[event |-> "CHAIN_B_COMPLETED", data |-> EmptyObject]>>]

HandlerChainCompleted(instanceId, data, comp, insts) == EmptyObject

HandlerAgeUpdated(instanceId, data, comp, insts) ==
    [update |-> [age |-> Get(data, "age")],
     send |-> <<[event |-> "AGE_CHANGE_NOTIFIED",
                 data |-> [instanceId |-> instanceId,
                           age |-> Get(data, "age")]]>>]

HandlerAgeChangeNotified(instanceId, data, comp, insts) == EmptyObject

HandlerFeltHunger(instanceId, data, comp, insts) ==
    [update |-> [isHungry |-> TRUE],
     send |-> <<[event |-> "STARTED_MOVING",
                 data |-> [movementMethod |-> "walking"]]>>]

HandlerStartedMoving(instanceId, data, comp, insts) ==
    [update |-> [movementMethod |-> Get(data, "movementMethod")]]

HandlerErrorOccurred(instanceId, data, comp, insts) ==
    [throw |-> "Test error"]

HandlerStatsUpdated(instanceId, data, comp, insts) ==
    [update |-> [stats |-> [strength |-> 15]]]

\* a handler whose send list has two entries, the second one addressed to
\* another instance through data.instanceId
HandlerTwoSends(instanceId, data, comp, insts) ==
    [update |-> [isHungry |-> TRUE],
     send |-> <<[event |-> "CHAIN_A_COMPLETED", data |-> EmptyObject],
                [event |-> "STARTED_MOVING",
                 data |-> [instanceId |-> "person_2",
                           movementMethod |-> "wheelchair"]]>>]

\* fridge-system: person.on("FELT_HUNGER")
HandlerFridgeFeltHunger(instanceId, data, comp, insts) ==
    IF ~HasInstance(insts, comp, instanceId) THEN EmptyObject
    ELSE [update |-> [isHungry |-> TRUE],
          send |-> <<[component |-> "person",
                      instanceId |-> instanceId,
                      event |-> "STARTED_MOVING",
                      data |-> [instanceId |-> instanceId,
                                movementMethod |-> "walking",
                                requestedFood |-> Get(data, "food"),
                                fridgeId |-> Get(data, "fridgeId")]]>>]

\* fridge-system: person.on("STARTED_MOVING")
HandlerFridgeStartedMoving(instanceId, data, comp, insts) ==
    IF ~HasInstance(insts, comp, instanceId) THEN EmptyObject
    ELSE [update |-> [movementMethod |-> Get(data, "movementMethod")],
          send |-> <<[component |-> "person",
                      event |-> "ARRIVED_AT_FRIDGE",
                      data |-> [instanceId |-> instanceId,
                                movementMethod |-> Get(data, "movementMethod"),
                                fridgeId |-> Get(data, "fridgeId"),
                                requestedFood |->
                                   Get(data, "requestedFood")]]>>]

\* fridge-system: person.on("ARRIVED_AT_FRIDGE")
HandlerArrivedAtFridge(instanceId, data, comp, insts) ==
    IF ~HasInstance(insts, comp, instanceId) THEN EmptyObject
    ELSE [send |-> <<[component |-> "fridge",
                      instanceId |-> Get(data, "fridgeId"),
                      event |-> "OPENED_FRIDGE",
                      data |-> [instanceId |-> Get(data, "fridgeId"),
                                movementMethod |-> Get(data, "movementMethod"),
                                personId |-> instanceId,
                                requestedFood |-> Get(data, "requestedFood"),
                                targetInstanceId |-> Get(data, "fridgeId")]]>>]

\* fridge-system: fridge.on("OPENED_FRIDGE"); person is the module-level
\* person component
HandlerOpenedFridge(instanceId, data, comp, insts) ==
    IF \/ ~HasInstance(insts, comp, Get(data, "targetInstanceId"))
       \/ ~HasInstance(insts, "person", Get(data, "personId"))
    THEN EmptyObject
    ELSE IF "requestedFood" \notin DOMAIN data
    THEN [throw |-> "TypeError"]
    ELSE LET fridgeInstance == MapGet(insts[comp], data.targetInstanceId)
             InFridge(food) == food \in Range(fridgeInstance.food)
             foundFood == SelectSeq(data.requestedFood, InFridge)
             NotFound(food) == food \notin Range(foundFood)
             remainingFood == SelectSeq(fridgeInstance.food, NotFound)
         IN  [update |-> [isOpen |-> TRUE, food |-> remainingFood],
              send |-> <<[component |-> "person",
                          instanceId |-> data.personId,
                          event |-> "FOOD_FOUND",
                          data |-> [foundFood |-> foundFood,
                                    targetInstanceId |-> data.personId]]>>]

\* fridge-system: person.on("FOOD_FOUND")
HandlerFoodFound(instanceId, data, comp, insts) ==
    IF ~HasInstance(insts, comp, instanceId) THEN EmptyObject
    ELSE LET instance == MapGet(insts[comp], instanceId)
             food == IF "food" \in DOMAIN instance THEN instance.food
                     ELSE <<>>
             foundFood == IF "foundFood" \in DOMAIN data THEN data.foundFood
                          ELSE <<>>
         IN  [update |-> [food |-> food \o foundFood, isHungry |-> FALSE]]

\* alarm-system: systemComponent.on("INITIALIZED_SYSTEM")
HandlerInitializedSystem(instanceId, data, comp, insts) ==
    [send |-> <<[component |-> "parent", event |-> "SOMETHING_HAPPENED",
                 data |-> [targetInstanceId |-> "parent_susan"]]>>]

\* alarm-system: parent.on("SOMETHING_HAPPENED")
HandlerSomethingHappened(instanceId, data, comp, insts) ==
    [update |-> [isSleeping |-> FALSE],
     send |-> <<[component |-> "child", event |-> "SET_OFF_ALARM",
                 data |-> [targetInstanceId |-> "child_thomas"]]>>]

\* alarm-system: child.on("SET_OFF_ALARM")
HandlerChildSetOffAlarm(instanceId, data, comp, insts) ==
    [update |-> [isSleeping |-> FALSE],
     send |-> <<[component |-> "grandchild", event |-> "SET_OFF_ALARM",
                 data |-> [targetInstanceId |-> "grandchild_richard"]]>>]

\* alarm-system: grandchild.on("SET_OFF_ALARM")
HandlerGrandchildSetOffAlarm(instanceId, data, comp, insts) ==
    [update |-> [isSleeping |-> FALSE]]

\* core-system test suite: person.on("RESTED")
HandlerPersonRested(instanceId, data, comp, insts) ==
    [update |-> [isHungry |-> FALSE]]

\* core-system test suite: robot.on("RESTED")
HandlerRobotRested(instanceId, data, comp, insts) ==
    [update |-> [isCharging |-> TRUE]]

\* a handler for TICK that always sends TICK to its own instance
HandlerTick(instanceId, data, comp, insts) ==
    [send |-> <<[event |-> "TICK", data |-> EmptyObject]>>]

\* nested-components test: parent.on("test") and child.on("test") return {}
HandlerReturnsNothing(instanceId, data, comp, insts) == EmptyObject

\* nested-components test: nonPropagatingChild.on("test") returns an
\* explicit empty send list
HandlerExplicitEmptySend(instanceId, data, comp, insts) ==
    [update |-> EmptyObject, send |-> <<>>]

\* a handler that returns an update and leaves send undefined
HandlerUpdateOnly(instanceId, data, comp, insts) ==
    [update |-> [seen |-> TRUE]]

\* a handler that returns one send entry
HandlerSendsOne(instanceId, data, comp, insts) ==
    [send |-> <<[event |-> "PARENT_NOTIFIED", data |-> EmptyObject]>>]

\* await handler(instanceId, data, comp): the value the promise settles to
CallHandler(h, instanceId, data, comp, insts) ==
    CASE h = "Event1" -> HandlerEvent1(instanceId, data, comp, insts)
      [] h = "Event2" -> HandlerEvent2(instanceId, data, comp, insts)
      [] h = "Event3" -> HandlerEvent3(instanceId, data, comp, insts)
      [] h = "ChainAStarted" ->
            HandlerChainAStarted(instanceId, data, comp, insts)
      [] h = "ChainBStarted" ->
            HandlerChainBStarted(instanceId, data, comp, insts)
      [] h = "ChainCompleted" ->
            HandlerChainCompleted(instanceId, data, comp, insts)
      [] h = "AgeUpdated" -> HandlerAgeUpdated(instanceId, data, comp, insts)
      [] h = "AgeChangeNotified" ->
            HandlerAgeChangeNotified(instanceId, data, comp, insts)
      [] h = "FeltHunger" -> HandlerFeltHunger(instanceId, data, comp, insts)
      [] h = "StartedMoving" ->
            HandlerStartedMoving(instanceId, data, comp, insts)
      [] h = "ErrorOccurred" ->
            HandlerErrorOccurred(instanceId, data, comp, insts)
      [] h = "StatsUpdated" ->
            HandlerStatsUpdated(instanceId, data, comp, insts)
      [] h = "TwoSends" -> HandlerTwoSends(instanceId, data, comp, insts)
      [] h = "ArrivedAtFridge" ->
            HandlerArrivedAtFridge(instanceId, data, comp, insts)
      [] h = "OpenedFridge" ->
            HandlerOpenedFridge(instanceId, data, comp, insts)
      [] h = "FoodFound" -> HandlerFoodFound(instanceId, data, comp, insts)
      [] h = "ReturnsNothing" ->
            HandlerReturnsNothing(instanceId, data, comp, insts)
      [] h = "ExplicitEmptySend" ->
            HandlerExplicitEmptySend(instanceId, data, comp, insts)
      [] h = "UpdateOnly" -> HandlerUpdateOnly(instanceId, data, comp, insts)
      [] h = "SendsOne" -> HandlerSendsOne(instanceId, data, comp, insts)
      [] h = "FridgeFeltHunger" ->
            HandlerFridgeFeltHunger(instanceId, data, comp, insts)
      [] h = "FridgeStartedMoving" ->
            HandlerFridgeStartedMoving(instanceId, data, comp, insts)
      [] h = "InitializedSystem" ->
            HandlerInitializedSystem(instanceId, data, comp, insts)
      [] h = "SomethingHappened" ->
            HandlerSomethingHappened(instanceId, data, comp, insts)
      [] h = "ChildSetOffAlarm" ->
            HandlerChildSetOffAlarm(instanceId, data, comp, insts)
      [] h = "GrandchildSetOffAlarm" ->
            HandlerGrandchildSetOffAlarm(instanceId, data, comp, insts)
      [] h = "Tick" -> HandlerTick(instanceId, data, comp, insts)
      [] h = "PersonRested" ->
            HandlerPersonRested(instanceId, data, comp, insts)
      [] h = "RobotRested" ->
            HandlerRobotRested(instanceId, data, comp, insts)

(***************************************************************************)
(* System: the event queue.                                                *)
(***************************************************************************)
\* queueEvent putting the entry at the head of the queue (unshift)
QueueEventAtHead(qa, component, instanceId, event, data) ==
    LET entry == [component |-> component, instanceId |-> instanceId,
                  event |-> event, data |-> data]
    IN  [queue |-> <<entry @@ [seq |-> Len(qa.log) + 1]>> \o qa.queue,
         log |-> Append(qa.log, entry)]

\* System.queueEvent(component, instanceId, event, data) on the pair
\* qa = [queue, log] of the queue and its history
QueueEventOp(qa, component, instanceId, event, data) ==
    LET entry == [component |-> component, instanceId |-> instanceId,
                  event |-> event, data |-> data]
    IN  [queue |-> Append(qa.queue,
                          entry @@ [seq |-> Len(qa.log) + 1]),
         log |-> Append(qa.log, entry)]

\* this.eventQueue.pop(): the last entry instead of the first
ShiftFromEnd(queue) ==
    [entry |-> queue[Len(queue)], rest |-> SubSeq(queue, 1, Len(queue) - 1)]

\* this.eventQueue.shift(): the entry returned and the queue left
Shift(queue) == [entry |-> Head(queue), rest |-> Tail(queue)]

\* newEvent.component ?? component
TargetComponent(newEvent, component) ==
    IF Get(newEvent, "component") # Undefined THEN newEvent.component
    ELSE component

\* the target instance always defaulting to the processed instance
TargetInstanceIdDefault(newEvent, instanceId) == instanceId

\* "instanceId" in newEvent.data ? newEvent.data.instanceId : instanceId
TargetInstanceId(newEvent, instanceId) ==
    IF "instanceId" \in DOMAIN newEvent.data THEN newEvent.data.instanceId
    ELSE instanceId

\* for (const newEvent of result.send) this.queueEvent(...)
RECURSIVE SendLoop(_, _, _, _, _)
SendLoop(qa, send, i, component, instanceId) ==
    IF i > Len(send) THEN qa
    ELSE SendLoop(QueueEventOp(qa, TargetComponent(send[i], component),
                               TargetInstanceId(send[i], instanceId),
                               send[i].event, send[i].data),
                  send, i + 1, component, instanceId)

(***************************************************************************)
(* The configuration the dispatcher runs on: new System(), then the        *)
(* components, handlers and instances of the core-system test suite and of *)
(* fridge-system.                                                          *)
(***************************************************************************)
PersonDataModel ==
    [name |-> "", age |-> 0, isHungry |-> FALSE, movementMethod |-> "walking"]

ComplexPersonDataModel ==
    [name |-> "", age |-> 0, isHungry |-> FALSE, movementMethod |-> "walking",
     stats |-> [strength |-> 10, speed |-> 10]]

FridgeDataModel ==
    [id |-> "", food |-> <<"pizza", "salad", "ice cream">>, isOpen |-> FALSE]

\* System.createComponent(name, dataModel)
CreateComponent(comps, name, dataModel) ==
    MapSet(comps, name, NewComponent(dataModel))

SetupComponents ==
    CreateComponent(
      CreateComponent(
        CreateComponent(
          CreateComponent(<<>>, "system", EmptyObject),
          "person", PersonDataModel),
        "complexPerson", ComplexPersonDataModel),
      "fridge", FridgeDataModel)

SetupHandlers ==
    [c \in Range(MapKeys(SetupComponents)) |->
        CASE c = "person" ->
               [e \in {"EVENT_1_OCCURRED", "EVENT_2_OCCURRED",
                       "EVENT_3_OCCURRED", "CHAIN_A_STARTED",
                       "CHAIN_B_STARTED", "CHAIN_A_COMPLETED",
                       "CHAIN_B_COMPLETED", "AGE_UPDATED",
                       "AGE_CHANGE_NOTIFIED", "FELT_HUNGER", "STARTED_MOVING",
                       "ERROR_OCCURRED", "NOTIFIED_BOTH", "ARRIVED_AT_FRIDGE",
                       "FOOD_FOUND"} |->
                  CASE e = "EVENT_1_OCCURRED" -> "Event1"
                    [] e = "EVENT_2_OCCURRED" -> "Event2"
                    [] e = "EVENT_3_OCCURRED" -> "Event3"
                    [] e = "CHAIN_A_STARTED" -> "ChainAStarted"
                    [] e = "CHAIN_B_STARTED" -> "ChainBStarted"
                    [] e = "CHAIN_A_COMPLETED" -> "ChainCompleted"
                    [] e = "CHAIN_B_COMPLETED" -> "ChainCompleted"
                    [] e = "AGE_UPDATED" -> "AgeUpdated"
                    [] e = "AGE_CHANGE_NOTIFIED" -> "AgeChangeNotified"
                    [] e = "FELT_HUNGER" -> "FeltHunger"
                    [] e = "STARTED_MOVING" -> "StartedMoving"
                    [] e = "ERROR_OCCURRED" -> "ErrorOccurred"
                    [] e = "NOTIFIED_BOTH" -> "TwoSends"
                    [] e = "ARRIVED_AT_FRIDGE" -> "ArrivedAtFridge"
                    [] e = "FOOD_FOUND" -> "FoodFound"]
          [] c = "complexPerson" ->
               [e \in {"STATS_UPDATED"} |-> "StatsUpdated"]
          [] c = "fridge" ->
               [e \in {"OPENED_FRIDGE"} |-> "OpenedFridge"]
          [] OTHER -> EmptyObject]

SetupInstances ==
    LET comps == SetupComponents
        empty == [c \in Range(MapKeys(comps)) |-> <<>>]
        i1 == CreateInstance(comps, empty, "person", "person_1",
                             [name |-> "Alice", age |-> 20])
        i2 == CreateInstance(comps, i1, "person", "person_2",
                             [name |-> "Bob", age |-> 25])
        i3 == CreateInstance(comps, i2, "complexPerson", "person_1",
                             EmptyObject)
    IN  CreateInstance(comps, i3, "fridge", "fridge_1", [id |-> "fridge_1"])

\* the queueEvent calls the caller may make
Inputs ==
    { [component |-> "person", instanceId |-> "person_1",
       event |-> "EVENT_1_OCCURRED", data |-> EmptyObject],
      [component |-> "person", instanceId |-> "person_1",
       event |-> "CHAIN_A_STARTED", data |-> EmptyObject],
      [component |-> "person", instanceId |-> "person_1",
       event |-> "CHAIN_B_STARTED", data |-> EmptyObject],
      [component |-> "person", instanceId |-> "person_1",
       event |-> "AGE_UPDATED", data |-> [age |-> 30]],
      [component |-> "person", instanceId |-> "nonexistent",
       event |-> "FELT_HUNGER", data |-> EmptyObject],
      [component |-> "person", instanceId |-> "person_1",
       event |-> "ERROR_OCCURRED", data |-> EmptyObject],
      [component |-> "person", instanceId |-> "person_1",
       event |-> "INVALID_EVENT_TYPE", data |-> EmptyObject],
      [component |-> "nonexistent", instanceId |-> "person_1",
       event |-> "EVENT_1_OCCURRED", data |-> EmptyObject],
      [component |-> "complexPerson", instanceId |-> "person_1",
       event |-> "STATS_UPDATED", data |-> EmptyObject],
      [component |-> "person", instanceId |-> "person_1",
       event |-> "NOTIFIED_BOTH", data |-> EmptyObject],
      [component |-> "person", instanceId |-> "person_1",
       event |-> "ARRIVED_AT_FRIDGE",
       data |-> [fridgeId |-> "fridge_1", movementMethod |-> "walking",
                 requestedFood |-> <<"pizza">>]] }

NoOutcome == [status |-> "none", error |-> ""]

\* no call has been made directly on a component yet
NoReturn == [status |-> "none", value |-> <<>>, error |-> ""]

Init ==
    /\ components = SetupComponents
    /\ instances = SetupInstances
    /\ eventHandlers = SetupHandlers
    /\ eventQueue = <<>>
    /\ pc = "idle"
    /\ current = None
    /\ result = None
    /\ outcome = NoOutcome
    /\ appended = <<>>
    /\ handled = <<>>
    /\ queued = 0
    /\ calls = 0
    /\ frames = <<>>
    /\ ret = NoReturn
    /\ invoked = <<>>
    /\ opCount = 0
    /\ created = <<>>
    /\ onCalls = <<>>
    /\ usedInstanceIds = {}

(***************************************************************************)
(* Actions.                                                                *)
(***************************************************************************)
\* the caller's system.queueEvent(component, instanceId, event, data).
\* JavaScript runs processEvents without interruption from one await to the
\* next, so the caller's code runs only while no call is in progress or while
\* the call is suspended at `await handler(...)`.
QueueEventOf(inputs, maxQueued, maxAppended) ==
    /\ pc \in {"idle", "awaiting"}
    /\ queued < maxQueued
    /\ Len(appended) < maxAppended
    /\ \E in \in inputs :
         LET qa == QueueEventOp([queue |-> eventQueue, log |-> appended],
                                in.component, in.instanceId, in.event,
                                in.data)
         IN  /\ eventQueue' = qa.queue
             /\ appended' = qa.log
    /\ queued' = queued + 1
    /\ UNCHANGED <<components, instances, eventHandlers, pc, current, result,
                   outcome, handled, calls>>
    /\ UNCHANGED directVars

\* a processEvents that shifts before it tests the queue: on an empty queue
\* the destructuring of the undefined entry throws
ProcessEventsShiftsFirst ==
    /\ pc = "idle"
    /\ calls' = IF calls < 2 THEN calls + 1 ELSE calls
    /\ pc' = IF Len(eventQueue) = 0 THEN "idle" ELSE "loop"
    /\ outcome' = IF Len(eventQueue) = 0
                  THEN [status |-> "rejected", error |-> "TypeError"]
                  ELSE [status |-> "pending", error |-> ""]
    /\ UNCHANGED <<components, instances, eventHandlers, eventQueue, current,
                   result, appended, handled, queued>>
    /\ UNCHANGED directVars

\* the caller's system.processEvents(): the call starts at the loop test
ProcessEvents ==
    /\ pc = "idle"
    /\ calls' = IF calls < 2 THEN calls + 1 ELSE calls
    /\ pc' = "loop"
    /\ outcome' = [status |-> "pending", error |-> ""]
    /\ UNCHANGED <<components, instances, eventHandlers, eventQueue, current,
                   result, appended, handled, queued>>
    /\ UNCHANGED directVars

\* the loop spinning on the empty queue instead of returning
ReturnNever ==
    /\ pc = "loop"
    /\ Len(eventQueue) = 0
    /\ UNCHANGED vars

\* a loop that also gives up after three handler calls
ReturnAfterBudget ==
    /\ pc = "loop"
    /\ Len(eventQueue) = 0 \/ Len(handled) >= 3
    /\ pc' = "idle"
    /\ outcome' = [status |-> "resolved", error |-> ""]
    /\ UNCHANGED <<components, instances, eventHandlers, eventQueue, current,
                   result, appended, handled, queued, calls>>
    /\ UNCHANGED directVars

\* while (this.eventQueue.length > 0) fails: the promise resolves
Return ==
    /\ pc = "loop"
    /\ Len(eventQueue) = 0
    /\ pc' = "idle"
    /\ outcome' = [status |-> "resolved", error |-> ""]
    /\ UNCHANGED <<components, instances, eventHandlers, eventQueue, current,
                   result, appended, handled, queued, calls>>
    /\ UNCHANGED directVars

\* shift, then getComponent(component) is undefined: warn and continue
SkipMissingComponent ==
    /\ pc = "loop"
    /\ Len(eventQueue) > 0
    /\ ~HasComponent(components, Shift(eventQueue).entry.component)
    /\ eventQueue' = Shift(eventQueue).rest
    /\ UNCHANGED <<components, instances, eventHandlers, pc, current, result,
                   outcome, appended, handled, queued, calls>>
    /\ UNCHANGED directVars

\* a missing handler ending the call with an error instead of a warning
SkipMissingHandlerThrows ==
    /\ pc = "loop"
    /\ Len(eventQueue) > 0
    /\ HasComponent(components, Shift(eventQueue).entry.component)
    /\ ~HasHandler(eventHandlers, Shift(eventQueue).entry.component,
                   Shift(eventQueue).entry.event)
    /\ eventQueue' = Shift(eventQueue).rest
    /\ pc' = "idle"
    /\ outcome' = [status |-> "rejected", error |-> "No handler"]
    /\ UNCHANGED <<components, instances, eventHandlers, current, result,
                   appended, handled, queued, calls>>
    /\ UNCHANGED directVars

\* shift, then comp.getEventHandler(eventName) is undefined: warn and continue
SkipMissingHandler ==
    /\ pc = "loop"
    /\ Len(eventQueue) > 0
    /\ HasComponent(components, Shift(eventQueue).entry.component)
    /\ ~HasHandler(eventHandlers, Shift(eventQueue).entry.component,
                   Shift(eventQueue).entry.event)
    /\ eventQueue' = Shift(eventQueue).rest
    /\ UNCHANGED <<components, instances, eventHandlers, pc, current, result,
                   outcome, appended, handled, queued, calls>>
    /\ UNCHANGED directVars

\* the loop shifting and invoking the next entry without awaiting the
\* promise of the handler in flight
InvokeHandlerEarly ==
    /\ pc \in {"loop", "awaiting"}
    /\ Len(eventQueue) > 0
    /\ LET event == Shift(eventQueue).entry
       IN  /\ HasComponent(components, event.component)
           /\ HasHandler(eventHandlers, event.component, event.event)
           /\ current' = event
           /\ result' = CallHandler(eventHandlers[event.component][event.event],
                                    event.instanceId, event.data,
                                    event.component, instances)
           /\ handled' = Append(handled, event.seq)
    /\ eventQueue' = Shift(eventQueue).rest
    /\ pc' = "awaiting"
    /\ UNCHANGED <<components, instances, eventHandlers, outcome, appended,
                   queued, calls>>
    /\ UNCHANGED directVars

\* shift, both lookups succeed: handler(instanceId, data, comp) is called and
\* processEvents awaits its promise
InvokeHandler ==
    /\ pc = "loop"
    /\ Len(eventQueue) > 0
    /\ LET event == Shift(eventQueue).entry
       IN  /\ HasComponent(components, event.component)
           /\ HasHandler(eventHandlers, event.component, event.event)
           /\ current' = event
           /\ result' = CallHandler(eventHandlers[event.component][event.event],
                                    event.instanceId, event.data,
                                    event.component, instances)
           /\ handled' = Append(handled, event.seq)
    /\ eventQueue' = Shift(eventQueue).rest
    /\ pc' = "awaiting"
    /\ UNCHANGED <<components, instances, eventHandlers, outcome, appended,
                   queued, calls>>
    /\ UNCHANGED directVars

\* the catch block logging the error and going on with the next entry
HandlerThrowsSwallowed ==
    /\ pc = "awaiting"
    /\ "throw" \in DOMAIN result
    /\ pc' = "loop"
    /\ current' = None
    /\ result' = None
    /\ UNCHANGED <<components, instances, eventHandlers, eventQueue, outcome,
                   appended, handled, queued, calls>>
    /\ UNCHANGED directVars

\* a catch block that puts the failing entry back at the head of the queue
\* before rethrowing
HandlerThrowsRequeues ==
    /\ pc = "awaiting"
    /\ "throw" \in DOMAIN result
    /\ pc' = "idle"
    /\ outcome' = [status |-> "rejected", error |-> result.throw]
    /\ eventQueue' = <<current>> \o eventQueue
    /\ current' = None
    /\ result' = None
    /\ UNCHANGED <<components, instances, eventHandlers, appended, handled,
                   queued, calls>>
    /\ UNCHANGED directVars

\* the awaited promise rejected: catch, log, rethrow; processEvents rejects
HandlerThrows ==
    /\ pc = "awaiting"
    /\ "throw" \in DOMAIN result
    /\ pc' = "idle"
    /\ outcome' = [status |-> "rejected", error |-> result.throw]
    /\ current' = None
    /\ result' = None
    /\ UNCHANGED <<components, instances, eventHandlers, eventQueue, appended,
                   handled, queued, calls>>
    /\ UNCHANGED directVars

\* an update for a missing instance creating the instance from the update
SkipMissingInstanceCreates ==
    /\ pc = "awaiting"
    /\ "throw" \notin DOMAIN result
    /\ "update" \in DOMAIN result
    /\ ~HasInstance(instances, current.component, current.instanceId)
    /\ instances' = [instances EXCEPT ![current.component] =
                        MapSet(@, current.instanceId, result.update)]
    /\ pc' = "loop"
    /\ current' = None
    /\ result' = None
    /\ UNCHANGED <<components, eventHandlers, eventQueue, outcome, appended,
                   handled, queued, calls>>
    /\ UNCHANGED directVars

\* result.update is set and getInstance(instanceId) is undefined: warn and
\* continue with the next iteration of the while loop
SkipMissingInstance ==
    /\ pc = "awaiting"
    /\ "throw" \notin DOMAIN result
    /\ "update" \in DOMAIN result
    /\ ~HasInstance(instances, current.component, current.instanceId)
    /\ pc' = "loop"
    /\ current' = None
    /\ result' = None
    /\ UNCHANGED <<components, instances, eventHandlers, eventQueue, outcome,
                   appended, handled, queued, calls>>
    /\ UNCHANGED directVars

\* a dispatcher that forwards the event to the declared parent of its
\* component when the handler returned no send
ApplyResultForwards(maxAppended) ==
    /\ pc = "awaiting"
    /\ "throw" \notin DOMAIN result
    /\ "update" \in DOMAIN result =>
          HasInstance(instances, current.component, current.instanceId)
    /\ LET parent == GetParent(components, current.component)
           send == IF "send" \in DOMAIN result THEN result.send
                   ELSE IF parent = Undefined THEN <<>>
                   ELSE <<[component |-> parent, event |-> current.event,
                           data |-> current.data]>>
           qa == SendLoop([queue |-> eventQueue, log |-> appended], send, 1,
                          current.component, current.instanceId)
       IN  /\ Len(appended) + Len(send) <= maxAppended
           /\ eventQueue' = qa.queue
           /\ appended' = qa.log
    /\ instances' = IF "update" \in DOMAIN result
                    THEN UpdateInstance(instances, current.component,
                                        current.instanceId, result.update)
                    ELSE instances
    /\ pc' = "loop"
    /\ current' = None
    /\ result' = None
    /\ UNCHANGED <<components, eventHandlers, outcome, handled, queued,
                   calls>>
    /\ UNCHANGED directVars

\* the rest of the try block: apply result.update, then queue result.send
ApplyResultWithin(maxAppended) ==
    /\ pc = "awaiting"
    /\ "throw" \notin DOMAIN result
    /\ "update" \in DOMAIN result =>
          HasInstance(instances, current.component, current.instanceId)
    /\ LET send == IF "send" \in DOMAIN result THEN result.send ELSE <<>>
           qa == SendLoop([queue |-> eventQueue, log |-> appended], send, 1,
                          current.component, current.instanceId)
       IN  /\ Len(appended) + Len(send) <= maxAppended
           /\ eventQueue' = qa.queue
           /\ appended' = qa.log
    /\ instances' = IF "update" \in DOMAIN result
                    THEN UpdateInstance(instances, current.component,
                                        current.instanceId, result.update)
                    ELSE instances
    /\ pc' = "loop"
    /\ current' = None
    /\ result' = None
    /\ UNCHANGED <<components, eventHandlers, outcome, handled, queued,
                   calls>>
    /\ UNCHANGED directVars

\* the caller of the core-system test suite queueing and draining
Next ==
    \/ QueueEventOf(Inputs, MaxQueued, MaxAppended)
    \/ ProcessEvents
    \/ Return
    \/ SkipMissingComponent
    \/ SkipMissingHandler
    \/ InvokeHandler
    \/ HandlerThrows
    \/ SkipMissingInstance
    \/ ApplyResultWithin(MaxAppended)

Spec == Init /\ [][Next]_vars

\* the steps of a running processEvents call: once called, the loop and the
\* continuation after each await are run by the JavaScript event loop
Drain ==
    \/ Return
    \/ SkipMissingComponent
    \/ SkipMissingHandler
    \/ InvokeHandler
    \/ HandlerThrows
    \/ SkipMissingInstance
    \/ ApplyResultWithin(MaxAppended)

FairSpec == Spec /\ WF_vars(Drain)

(***************************************************************************)
(* The dispatcher on fridge-system: the components person and fridge, the  *)
(* five handlers of the module and one instance of each component.         *)
(***************************************************************************)
\* a system at rest with the given components, instances and handlers
AtRest(comps, insts, handlers) ==
    /\ components = comps
    /\ instances = insts
    /\ eventHandlers = handlers
    /\ eventQueue = <<>>
    /\ pc = "idle"
    /\ current = None
    /\ result = None
    /\ outcome = NoOutcome
    /\ appended = <<>>
    /\ handled = <<>>
    /\ queued = 0
    /\ calls = 0
    /\ frames = <<>>
    /\ ret = NoReturn
    /\ invoked = <<>>
    /\ opCount = 0
    /\ created = <<>>
    /\ onCalls = <<>>
    /\ usedInstanceIds = {}

\* number of entries ever pushed on the queue of fridge-system
MaxChain == 10
\* number of queueEvent calls made by the caller of fridge-system
MaxHunger == 2

FridgeComponents ==
    CreateComponent(
      CreateComponent(
        CreateComponent(<<>>, "system", EmptyObject),
        "person", [id |-> "", isHungry |-> FALSE,
                   movementMethod |-> "walking", food |-> <<>>]),
      "fridge", FridgeDataModel)

FridgeHandlers ==
    [c \in Range(MapKeys(FridgeComponents)) |->
        CASE c = "person" ->
               On(On(On(On(EmptyObject,
                           "FELT_HUNGER", "FridgeFeltHunger"),
                        "STARTED_MOVING", "FridgeStartedMoving"),
                     "ARRIVED_AT_FRIDGE", "ArrivedAtFridge"),
                  "FOOD_FOUND", "FoodFound")
          [] c = "fridge" -> On(EmptyObject, "OPENED_FRIDGE", "OpenedFridge")
          [] OTHER -> EmptyObject]

FridgeInstances ==
    LET empty == [c \in Range(MapKeys(FridgeComponents)) |-> <<>>]
        i1 == CreateInstance(FridgeComponents, empty, "person", "person_1",
                             [id |-> "person_1"])
    IN  CreateInstance(FridgeComponents, i1, "fridge", "fridge_1",
                       [id |-> "fridge_1"])

\* FELT_HUNGER with the food asked for, without a fridgeId
HungerWithoutFridge ==
    [component |-> "person", instanceId |-> "person_1",
     event |-> "FELT_HUNGER", data |-> [food |-> <<"pizza">>]]

\* FELT_HUNGER with the food asked for and the fridge to go to
HungerWithFridge ==
    [component |-> "person", instanceId |-> "person_1",
     event |-> "FELT_HUNGER",
     data |-> [food |-> <<"pizza">>, fridgeId |-> "fridge_1"]]

\* the queueEvent calls the caller of fridge-system may make
FridgeInputs ==
    { HungerWithoutFridge, HungerWithFridge,
      [component |-> "person", instanceId |-> "person_9",
       event |-> "FELT_HUNGER",
       data |-> [food |-> <<"pizza">>, fridgeId |-> "fridge_1"]],
      [component |-> "fridge", instanceId |-> "fridge_9",
       event |-> "OPENED_FRIDGE",
       data |-> [targetInstanceId |-> "fridge_1", personId |-> "person_1",
                 requestedFood |-> <<"salad">>]],
      [component |-> "fridge", instanceId |-> "fridge_1",
       event |-> "OPENED_FRIDGE",
       data |-> [targetInstanceId |-> "fridge_1", personId |-> "person_1"]],
      [component |-> "robot", instanceId |-> "person_1",
       event |-> "FELT_HUNGER", data |-> EmptyObject],
      [component |-> "person", instanceId |-> "person_1",
       event |-> "SYSTEM_INITIALIZED", data |-> EmptyObject] }

FridgeSpec ==
    /\ AtRest(FridgeComponents, FridgeInstances, FridgeHandlers)
    /\ [][\/ QueueEventOf(FridgeInputs, MaxHunger, MaxChain)
          \/ ProcessEvents
          \/ Return
          \/ SkipMissingComponent
          \/ SkipMissingHandler
          \/ InvokeHandler
          \/ HandlerThrows
          \/ SkipMissingInstance
          \/ ApplyResultWithin(MaxChain)]_vars

(***************************************************************************)
(* alarm-system: the walkthrough of the system set-up guide (system wakes  *)
(* the parent, which wakes the child, which wakes the grandchild).         *)
(***************************************************************************)
\* number of entries ever pushed on the queue of alarm-system
MaxAlarmChain == 6
\* number of queueEvent calls made by the caller of alarm-system
MaxAlarms == 2

COMPONENT_ORDER == <<"system", "parent", "child", "grandchild">>

AlarmComponents ==
    LET c1 == CreateComponent(<<>>, "system", EmptyObject)
        c2 == CreateComponent(c1, "parent", EmptyObject)
        c3 == CreateComponent(c2, "child", EmptyObject)
        c4 == CreateComponent(c3, "grandchild", EmptyObject)
    IN  SetParent(SetParent(c4, "child", "parent"), "grandchild", "child")

AlarmHandlers ==
    [c \in Range(MapKeys(AlarmComponents)) |->
        CASE c = "system" ->
               On(EmptyObject, "INITIALIZED_SYSTEM", "InitializedSystem")
          [] c = "parent" ->
               On(EmptyObject, "SOMETHING_HAPPENED", "SomethingHappened")
          [] c = "child" -> On(EmptyObject, "SET_OFF_ALARM", "ChildSetOffAlarm")
          [] c = "grandchild" ->
               On(EmptyObject, "SET_OFF_ALARM", "GrandchildSetOffAlarm")]

AlarmInstances ==
    LET empty == [c \in Range(MapKeys(AlarmComponents)) |-> <<>>]
        i1 == CreateInstance(AlarmComponents, empty, "system",
                             "system_instance", [name |-> "Main System"])
        i2 == CreateInstanceInOrder(AlarmComponents, i1, "parent",
                 "parent_susan", [name |-> "Susan", isSleeping |-> TRUE],
                 COMPONENT_ORDER).insts
        i3 == CreateInstanceInOrder(AlarmComponents, i2, "child",
                 "child_thomas", [name |-> "Thomas", isSleeping |-> TRUE],
                 COMPONENT_ORDER).insts
        i4 == CreateInstanceInOrder(AlarmComponents, i3, "grandchild",
                 "grandchild_richard",
                 [name |-> "Richard", isSleeping |-> TRUE],
                 COMPONENT_ORDER).insts
        i5 == SetInstanceParent(AlarmComponents, i4, "child_thomas",
                                "parent_susan").insts
    IN  SetInstanceParent(AlarmComponents, i5, "grandchild_richard",
                          "child_thomas").insts

\* system.queueEvent("system", "system_instance", "INITIALIZED_SYSTEM", {})
InitializedSystem ==
    [component |-> "system", instanceId |-> "system_instance",
     event |-> "INITIALIZED_SYSTEM", data |-> EmptyObject]

\* the queueEvent calls the caller of alarm-system may make
AlarmInputs ==
    { InitializedSystem,
      [component |-> "parent", instanceId |-> "parent_susan",
       event |-> "SOMETHING_HAPPENED", data |-> EmptyObject],
      [component |-> "child", instanceId |-> "child_thomas",
       event |-> "SET_OFF_ALARM", data |-> EmptyObject],
      [component |-> "grandchild", instanceId |-> "grandchild_richard",
       event |-> "SET_OFF_ALARM", data |-> EmptyObject],
      [component |-> "robot", instanceId |-> "robot_1",
       event |-> "SET_OFF_ALARM", data |-> EmptyObject],
      [component |-> "parent", instanceId |-> "parent_susan",
       event |-> "SET_OFF_ALARM", data |-> EmptyObject] }

\* no handler of alarm-system throws
AlarmSpec ==
    /\ AtRest(AlarmComponents, AlarmInstances, AlarmHandlers)
    /\ [][\/ QueueEventOf(AlarmInputs, MaxAlarms, MaxAlarmChain)
          \/ ProcessEvents
          \/ Return
          \/ SkipMissingComponent
          \/ SkipMissingHandler
          \/ InvokeHandler
          \/ SkipMissingInstance
          \/ ApplyResultWithin(MaxAlarmChain)]_vars

(***************************************************************************)
(* System.processEvents invoked again while an earlier invocation is       *)
(* suspended at `await handler(...)`, as after the un-awaited call of      *)
(* alarm-system.  Each invocation has its own locals and they share the    *)
(* queue.  pc, current, result and outcome are those of the invocation     *)
(* that runs or ran last; frames holds those of the other invocations.     *)
(* JavaScript runs an invocation without interruption up to its next       *)
(* await, so another one starts or resumes only at pc = "awaiting" or      *)
(* after the return.                                                       *)
(***************************************************************************)
\* number of processEvents invocations that may be in flight together
MaxInFlight == 2

\* an invocation that leaves the entry it awaits at the head of the queue
\* for the invocation that starts
ProcessEventsAgainRepeats ==
    /\ pc = "awaiting"
    /\ Len(frames) + 1 < MaxInFlight
    /\ frames' = Append(frames, [pc |-> pc, current |-> current,
                                 result |-> result, outcome |-> outcome])
    /\ eventQueue' = <<current>> \o eventQueue
    /\ pc' = "loop"
    /\ current' = None
    /\ result' = None
    /\ outcome' = [status |-> "pending", error |-> ""]
    /\ calls' = IF calls < 2 THEN calls + 1 ELSE calls
    /\ UNCHANGED <<components, instances, eventHandlers, appended, handled,
                   queued, ret, invoked, opCount, asideVars>>

\* the caller's system.processEvents() while the earlier invocation is
\* suspended at its await: that one keeps its locals, the new one starts
\* at the loop test
ProcessEventsAgain ==
    /\ pc = "awaiting"
    /\ Len(frames) + 1 < MaxInFlight
    /\ frames' = Append(frames, [pc |-> pc, current |-> current,
                                 result |-> result, outcome |-> outcome])
    /\ eventQueue' = eventQueue
    /\ pc' = "loop"
    /\ current' = None
    /\ result' = None
    /\ outcome' = [status |-> "pending", error |-> ""]
    /\ calls' = IF calls < 2 THEN calls + 1 ELSE calls
    /\ UNCHANGED <<components, instances, eventHandlers, appended, handled,
                   queued, ret, invoked, opCount, asideVars>>

\* the promise another invocation awaits settles while this one is
\* suspended or has returned: that invocation goes on with its own locals
Resume ==
    /\ pc \in {"awaiting", "idle"}
    /\ \E i \in DOMAIN frames :
         /\ frames[i].pc = "awaiting"
         /\ frames' = [frames EXCEPT ![i] =
                          [pc |-> pc, current |-> current,
                           result |-> result, outcome |-> outcome]]
         /\ pc' = frames[i].pc
         /\ current' = frames[i].current
         /\ result' = frames[i].result
         /\ outcome' = frames[i].outcome
    /\ UNCHANGED <<components, instances, eventHandlers, eventQueue, appended,
                   handled, queued, calls, ret, invoked, opCount, asideVars>>

\* alarm-system with callers that do not await processEvents
ReentrantSpec ==
    /\ AtRest(AlarmComponents, AlarmInstances, AlarmHandlers)
    /\ [][\/ QueueEventOf(AlarmInputs, MaxAlarms, MaxAlarmChain)
          \/ ProcessEvents
          \/ ProcessEventsAgain
          \/ Resume
          \/ Return
          \/ SkipMissingComponent
          \/ SkipMissingHandler
          \/ InvokeHandler
          \/ SkipMissingInstance
          \/ ApplyResultWithin(MaxAlarmChain)]_vars

(***************************************************************************)
(* A system with a handler whose send feeds itself.                        *)
(***************************************************************************)
\* number of entries ever pushed on the queue of the self-feeding system
MaxLoop == 6
\* number of queueEvent calls made by the caller of the self-feeding system
MaxTicks == 2

LoopComponents ==
    CreateComponent(CreateComponent(<<>>, "system", EmptyObject),
                    "person", PersonDataModel)

LoopHandlers ==
    [c \in Range(MapKeys(LoopComponents)) |->
        IF c = "person"
        THEN On(On(On(EmptyObject, "TICK", "Tick"),
                   "NOTED", "UpdateOnly"),
                "ERROR_EVENT", "ErrorOccurred")
        ELSE EmptyObject]

LoopInstances ==
    CreateInstance(LoopComponents,
                   [c \in Range(MapKeys(LoopComponents)) |-> <<>>],
                   "person", "person_1", EmptyObject)

LoopInputs ==
    [component : {"person"}, instanceId : {"person_1", "person_9"},
     event : {"TICK", "NOTED", "ERROR_EVENT"}, data : {EmptyObject}]
    \cup
    { [component |-> "robot", instanceId |-> "person_1",
       event |-> "TICK", data |-> EmptyObject],
      [component |-> "person", instanceId |-> "person_1",
       event |-> "UNHEARD", data |-> EmptyObject] }

LoopSpec ==
    /\ AtRest(LoopComponents, LoopInstances, LoopHandlers)
    /\ [][\/ QueueEventOf(LoopInputs, MaxTicks, MaxLoop)
          \/ ProcessEvents
          \/ Return
          \/ SkipMissingComponent
          \/ SkipMissingHandler
          \/ InvokeHandler
          \/ HandlerThrows
          \/ SkipMissingInstance
          \/ ApplyResultWithin(MaxLoop)]_vars

(***************************************************************************)
(* The component-specific event handling test: person and robot both       *)
(* listen for RESTED, and the caller registers handlers as it goes.        *)
(***************************************************************************)
\* number of on(event, handler) calls
MaxOn == 3
\* number of queueEvent calls made by the caller of the RESTED test
MaxRested == 2

RestComponents ==
    CreateComponent(
      CreateComponent(CreateComponent(<<>>, "system", EmptyObject),
                      "person", PersonDataModel),
      "robot", [batteryLevel |-> 100, isCharging |-> FALSE])

RestInstances ==
    LET empty == [c \in Range(MapKeys(RestComponents)) |-> <<>>]
        i1 == CreateInstance(RestComponents, empty, "person", "person_1",
                             [name |-> "Alice", age |-> 20,
                              isHungry |-> TRUE])
    IN  CreateInstance(RestComponents, i1, "robot", "robot_1",
                       [batteryLevel |-> 50, isCharging |-> FALSE])

\* the handlers the caller may register on a component
RestHandlerChoices(c) ==
    IF c = "person" THEN {"ErrorOccurred", "PersonRested"}
    ELSE {"PersonRested", "RobotRested"}

RestInputs ==
    { [component |-> "person", instanceId |-> "person_1",
       event |-> "RESTED", data |-> EmptyObject],
      [component |-> "robot", instanceId |-> "robot_1",
       event |-> "RESTED", data |-> EmptyObject],
      [component |-> "robot", instanceId |-> "robot_9",
       event |-> "RESTED", data |-> EmptyObject],
      [component |-> "ghost", instanceId |-> "person_1",
       event |-> "RESTED", data |-> EmptyObject] }

\* the caller's component.on("RESTED", handler); like queueEvent it runs
\* only while no processEvents call is between two awaits
RegisterHandler ==
    /\ pc \in {"idle", "awaiting"}
    /\ Len(onCalls) < MaxOn
    /\ \E c \in {"person", "robot"} : \E h \in RestHandlerChoices(c) :
          /\ eventHandlers' =
                [eventHandlers EXCEPT ![c] = On(@, "RESTED", h)]
          /\ onCalls' = Append(onCalls, [component |-> c,
                                         event |-> "RESTED", handler |-> h])
    /\ UNCHANGED <<components, instances, eventQueue, pc, current, result,
                   outcome, appended, handled, queued, calls, frames, ret,
                   invoked, opCount, created, usedInstanceIds>>

RestSpec ==
    /\ AtRest(RestComponents, RestInstances,
              [c \in Range(MapKeys(RestComponents)) |-> EmptyObject])
    /\ [][\/ RegisterHandler
          \/ QueueEventOf(RestInputs, MaxRested, MaxRested)
          \/ ProcessEvents
          \/ Return
          \/ SkipMissingComponent
          \/ SkipMissingHandler
          \/ InvokeHandler
          \/ HandlerThrows
          \/ SkipMissingInstance
          \/ ApplyResultWithin(MaxRested)]_vars

(***************************************************************************)
(* Component.processEvent: the component-owned dispatch with propagation   *)
(* to the parent instance, on the hierarchy of the nested-components test  *)
(* suite (parent, child under parent, grandchild under child, and          *)
(* nonPropagatingChild under parent).                                      *)
(***************************************************************************)
\* number of processEvent calls made by the caller in one behaviour
MaxPropCalls == 2

HierComponents ==
    LET c1 == CreateComponent(<<>>, "system", EmptyObject)
        c2 == CreateComponent(c1, "parent", EmptyObject)
        c3 == CreateChildComponent(c2, "child", EmptyObject, "parent")
        c4 == CreateChildComponent(c3, "grandchild", EmptyObject, "child")
    IN  CreateChildComponent(c4, "nonPropagatingChild", EmptyObject, "parent")

HierHandlers ==
    [c \in Range(MapKeys(HierComponents)) |->
        CASE c = "parent" ->
               On(On(On(On(On(<<>>, "test", "ReturnsNothing"),
                           "notify", "SendsOne"),
                        "update", "ReturnsNothing"),
                     "quiet", "ReturnsNothing"),
                  "fail", "ErrorOccurred")
          [] c = "child" ->
               On(On(On(On(On(<<>>, "test", "ReturnsNothing"),
                           "notify", "UpdateOnly"),
                        "update", "ReturnsNothing"),
                     "quiet", "ExplicitEmptySend"),
                  "fail", "ReturnsNothing")
          [] c = "grandchild" ->
               On(On(<<>>, "test", "ReturnsNothing"),
                  "notify", "ReturnsNothing")
          [] c = "nonPropagatingChild" ->
               On(<<>>, "test", "ExplicitEmptySend")
          [] OTHER -> <<>>]

\* parent_1; child_1 under parent_1; child_2 without a parent; child_3 under
\* an id that names no instance; grandchild_1 under child_1;
\* nonPropagatingChild_test under parent_1
HierInstances ==
    LET comps == HierComponents
        empty == [c \in Range(MapKeys(comps)) |-> <<>>]
        i1 == CreateInstance(comps, empty, "parent", "parent_1", EmptyObject)
        i2 == CreateInstance(comps, i1, "child", "child_1",
                             [parentInstanceId |-> "parent_1"])
        i3 == CreateInstance(comps, i2, "child", "child_2", EmptyObject)
        i4 == CreateInstance(comps, i3, "child", "child_3",
                             [parentInstanceId |-> "parent_9"])
        i5 == CreateInstance(comps, i4, "grandchild", "grandchild_1",
                             [parentInstanceId |-> "child_1"])
    IN  CreateInstance(comps, i5, "nonPropagatingChild",
                       "nonPropagatingChild_test",
                       [parentInstanceId |-> "parent_1"])

\* the processEvent calls the caller may make
PropInputs ==
    { [component |-> "child", instanceId |-> "child_1", event |-> "test",
       data |-> EmptyObject],
      [component |-> "grandchild", instanceId |-> "grandchild_1",
       event |-> "test", data |-> [n |-> 1]],
      [component |-> "grandchild", instanceId |-> "grandchild_1",
       event |-> "notify", data |-> [n |-> 2]],
      [component |-> "child", instanceId |-> "child_1", event |-> "update",
       data |-> EmptyObject],
      [component |-> "child", instanceId |-> "child_1", event |-> "quiet",
       data |-> EmptyObject],
      [component |-> "child", instanceId |-> "child_2", event |-> "test",
       data |-> EmptyObject],
      [component |-> "child", instanceId |-> "child_3", event |-> "test",
       data |-> EmptyObject],
      [component |-> "child", instanceId |-> "child_1", event |-> "fail",
       data |-> EmptyObject],
      [component |-> "nonPropagatingChild",
       instanceId |-> "nonPropagatingChild_test", event |-> "test",
       data |-> EmptyObject],
      [component |-> "child", instanceId |-> "missing", event |-> "test",
       data |-> EmptyObject],
      [component |-> "grandchild", instanceId |-> "grandchild_1",
       event |-> "quiet", data |-> EmptyObject],
      [component |-> "parent", instanceId |-> "parent_1", event |-> "notify",
       data |-> EmptyObject] }

PropInit ==
    /\ components = HierComponents
    /\ instances = HierInstances
    /\ eventHandlers = HierHandlers
    /\ eventQueue = <<>>
    /\ pc = "idle"
    /\ current = None
    /\ result = None
    /\ outcome = NoOutcome
    /\ appended = <<>>
    /\ handled = <<>>
    /\ queued = 0
    /\ calls = 0
    /\ frames = <<>>
    /\ ret = NoReturn
    /\ invoked = <<>>
    /\ opCount = 0
    /\ created = <<>>
    /\ onCalls = <<>>
    /\ usedInstanceIds = {}

\* the variables Component.processEvent never touches
queueVars == <<components, eventHandlers, eventQueue, pc, current, result,
               outcome, appended, handled, queued, calls, asideVars>>

\* the innermost processEvent call
Top == frames[Len(frames)]

Resolved(value) == [status |-> "resolved", value |-> value, error |-> ""]

Rejection(error) == [status |-> "rejected", value |-> <<>>, error |-> error]

\* the caller's component.processEvent(instanceId, event, data)
CallProcessEvent ==
    /\ frames = <<>>
    /\ opCount < MaxPropCalls
    /\ \E in \in PropInputs :
          frames' = <<[component |-> in.component,
                       instanceId |-> in.instanceId, event |-> in.event,
                       data |-> in.data, pc |-> "start", result |-> None,
                       eventsToSend |-> <<>>]>>
    /\ ret' = [status |-> "pending", value |-> <<>>, error |-> ""]
    /\ opCount' = opCount + 1
    /\ UNCHANGED <<instances, invoked>>
    /\ UNCHANGED queueVars

\* this.instances.get(instanceId) is undefined: warn and return []
ProcessEventNoInstance ==
    /\ frames # <<>>
    /\ Top.pc = "start"
    /\ ~HasInstance(instances, Top.component, Top.instanceId)
    /\ frames' = SubSeq(frames, 1, Len(frames) - 1)
    /\ ret' = Resolved(<<>>)
    /\ UNCHANGED <<instances, invoked, opCount>>
    /\ UNCHANGED queueVars

\* this.eventHandlers.get(event) is undefined: warn and return []
ProcessEventNoHandler ==
    /\ frames # <<>>
    /\ Top.pc = "start"
    /\ HasInstance(instances, Top.component, Top.instanceId)
    /\ ~HasHandler(eventHandlers, Top.component, Top.event)
    /\ frames' = SubSeq(frames, 1, Len(frames) - 1)
    /\ ret' = Resolved(<<>>)
    /\ UNCHANGED <<instances, invoked, opCount>>
    /\ UNCHANGED queueVars

\* handler(instanceId, data, this) is called and processEvent awaits it
ProcessEventInvoke ==
    /\ frames # <<>>
    /\ Top.pc = "start"
    /\ HasInstance(instances, Top.component, Top.instanceId)
    /\ HasHandler(eventHandlers, Top.component, Top.event)
    /\ LET r == CallHandler(eventHandlers[Top.component][Top.event],
                            Top.instanceId, Top.data, Top.component,
                            instances)
       IN  /\ frames' = [frames EXCEPT ![Len(frames)] =
                            [@ EXCEPT !.pc = "awaiting", !.result = r]]
           /\ invoked' = Append(invoked,
                            [component |-> Top.component,
                             instanceId |-> Top.instanceId,
                             event |-> Top.event, data |-> Top.data,
                             depth |-> Len(frames), call |-> opCount,
                             sendDefined |-> "send" \in DOMAIN r])
    /\ UNCHANGED <<instances, ret, opCount>>
    /\ UNCHANGED queueVars

\* the handler's promise rejected, or updateInstance found no instance: the
\* catch block logs the error and rethrows it
ProcessEventThrows ==
    /\ frames # <<>>
    /\ Top.pc = "awaiting"
    /\ \/ "throw" \in DOMAIN Top.result
       \/ /\ "update" \in DOMAIN Top.result
          /\ ~HasInstance(instances, Top.component, Top.instanceId)
    /\ frames' = SubSeq(frames, 1, Len(frames) - 1)
    /\ ret' = Rejection(IF "throw" \in DOMAIN Top.result
                        THEN Top.result.throw ELSE "Instance not found")
    /\ UNCHANGED <<instances, invoked, opCount>>
    /\ UNCHANGED queueVars

\* the instance stores after `if (result.update) this.updateInstance(...)`
AfterUpdate(f, insts) ==
    IF "update" \in DOMAIN f.result
    THEN UpdateInstance(insts, f.component, f.instanceId, f.result.update)
    ELSE insts

\* result.send ?? []
EventsToSend(r) == IF "send" \in DOMAIN r THEN r.send ELSE <<>>

\* the test that guards the call of parentComponent.processEvent: a declared
\* parent, send undefined, an event that propagates, the parent component
\* registered and a parentInstanceId on the instance
Propagates(f, comps, insts) ==
    /\ Truthy(MapGet(comps, f.component).parent)
    /\ "send" \notin DOMAIN f.result
    /\ ShouldPropagateToParent(f.event)
    /\ GetParent(comps, f.component) # Undefined
    /\ Truthy(Get(MapGet(insts[f.component], f.instanceId),
                  "parentInstanceId"))

\* the handler settled: the update is applied and processEvent returns the
\* events to send without calling the parent
ProcessEventReturn ==
    /\ frames # <<>>
    /\ Top.pc = "awaiting"
    /\ "throw" \notin DOMAIN Top.result
    /\ "update" \in DOMAIN Top.result =>
          HasInstance(instances, Top.component, Top.instanceId)
    /\ instances' = AfterUpdate(Top, instances)
    /\ ~Propagates(Top, components, instances')
    /\ frames' = SubSeq(frames, 1, Len(frames) - 1)
    /\ ret' = Resolved(EventsToSend(Top.result))
    /\ UNCHANGED <<invoked, opCount>>
    /\ UNCHANGED queueVars

\* propagation to the parent even when the handler returned an empty send
ProcessEventPropagateOnEmptySend ==
    /\ frames # <<>>
    /\ Top.pc = "awaiting"
    /\ "throw" \notin DOMAIN Top.result
    /\ "update" \in DOMAIN Top.result =>
          HasInstance(instances, Top.component, Top.instanceId)
    /\ instances' = AfterUpdate(Top, instances)
    /\ Truthy(MapGet(components, Top.component).parent)
    /\ EventsToSend(Top.result) = <<>>
    /\ GetParent(components, Top.component) # Undefined
    /\ Truthy(Get(MapGet(instances'[Top.component], Top.instanceId),
                  "parentInstanceId"))
    /\ frames' =
          Append([frames EXCEPT ![Len(frames)] =
                     [@ EXCEPT !.pc = "propagating",
                               !.eventsToSend = EventsToSend(Top.result)]],
                 [component |-> GetParent(components, Top.component),
                  instanceId |-> MapGet(instances'[Top.component],
                                        Top.instanceId).parentInstanceId,
                  event |-> Top.event, data |-> Top.data, pc |-> "start",
                  result |-> None, eventsToSend |-> <<>>])
    /\ UNCHANGED <<ret, invoked, opCount>>
    /\ UNCHANGED queueVars

\* the handler settled: the update is applied and processEvent calls
\* parentComponent.processEvent(parentInstanceId, event, data) and awaits it
ProcessEventPropagate ==
    /\ frames # <<>>
    /\ Top.pc = "awaiting"
    /\ "throw" \notin DOMAIN Top.result
    /\ "update" \in DOMAIN Top.result =>
          HasInstance(instances, Top.component, Top.instanceId)
    /\ instances' = AfterUpdate(Top, instances)
    /\ Propagates(Top, components, instances')
    /\ frames' =
          Append([frames EXCEPT ![Len(frames)] =
                     [@ EXCEPT !.pc = "propagating",
                               !.eventsToSend = EventsToSend(Top.result)]],
                 [component |-> GetParent(components, Top.component),
                  instanceId |-> MapGet(instances'[Top.component],
                                        Top.instanceId).parentInstanceId,
                  event |-> Top.event, data |-> Top.data, pc |-> "start",
                  result |-> None, eventsToSend |-> <<>>])
    /\ UNCHANGED <<ret, invoked, opCount>>
    /\ UNCHANGED queueVars

\* the parent's processEvent resolved: its events are appended to the
\* events to send and the list is returned
ProcessEventParentReturned ==
    /\ frames # <<>>
    /\ Top.pc = "propagating"
    /\ ret.status = "resolved"
    /\ frames' = SubSeq(frames, 1, Len(frames) - 1)
    /\ ret' = Resolved(Top.eventsToSend \o ret.value)
    /\ UNCHANGED <<instances, invoked, opCount>>
    /\ UNCHANGED queueVars

\* the parent's processEvent rejected: the catch block rethrows the error
ProcessEventParentThrew ==
    /\ frames # <<>>
    /\ Top.pc = "propagating"
    /\ ret.status = "rejected"
    /\ frames' = SubSeq(frames, 1, Len(frames) - 1)
    /\ ret' = ret
    /\ UNCHANGED <<instances, invoked, opCount>>
    /\ UNCHANGED queueVars

PropNext ==
    \/ CallProcessEvent
    \/ ProcessEventNoInstance
    \/ ProcessEventNoHandler
    \/ ProcessEventInvoke
    \/ ProcessEventThrows
    \/ ProcessEventReturn
    \/ ProcessEventPropagate
    \/ ProcessEventParentReturned
    \/ ProcessEventParentThrew

PropSpec == PropInit /\ [][PropNext]_vars

(***************************************************************************)
(* The instance-relationship operations of Component, called directly by   *)
(* the caller on the hierarchy system / parent / child: createInstance,    *)
(* createInstanceInOrder, setInstanceParent and clearInstances.  Each call *)
(* is synchronous, hence one step.                                         *)
(***************************************************************************)
\* number of calls the caller makes on the components in one behaviour
MaxRelOps == 6

RelComponents ==
    LET c1 == CreateComponent(<<>>, "system", EmptyObject)
        c2 == CreateComponent(c1, "parent", EmptyObject)
    IN  CreateChildComponent(c2, "child", EmptyObject, "parent")

\* the instance ids the caller uses for each component
RelIds(comp) ==
    CASE comp = "parent" -> {"parent_1", "parent_2"}
      [] comp = "child" -> {"child_1", "child_2", "child_3"}
      [] OTHER -> {}

\* the initial data the caller passes to createInstance
RelData(comp) ==
    IF comp = "child"
    THEN {EmptyObject, [parentInstanceId |-> "parent_1"]}
    ELSE {EmptyObject}

\* the instance ids the caller uses with createInstanceInOrder
RelOrderedIds(comp) == RelIds(comp) \cap {"parent_1", "child_1"}

\* the COMPONENT_ORDER arrays the caller passes to createInstanceInOrder
RelOrders == {<<"system", "parent", "child">>, <<"system", "parent">>}

RelInit ==
    /\ components = RelComponents
    /\ instances = [c \in Range(MapKeys(RelComponents)) |-> <<>>]
    /\ eventHandlers = [c \in Range(MapKeys(RelComponents)) |-> <<>>]
    /\ eventQueue = <<>>
    /\ pc = "idle"
    /\ current = None
    /\ result = None
    /\ outcome = NoOutcome
    /\ appended = <<>>
    /\ handled = <<>>
    /\ queued = 0
    /\ calls = 0
    /\ frames = <<>>
    /\ ret = NoReturn
    /\ invoked = <<>>
    /\ opCount = 0
    /\ created = <<>>
    /\ onCalls = <<>>
    /\ usedInstanceIds = {}

\* what a relationship operation leaves alone
relUnchanged == <<components, eventHandlers, eventQueue, pc, current, result,
                  outcome, appended, handled, queued, calls, frames, invoked,
                  asideVars>>

\* how a synchronous call that threw `error` ("" when it returned) settled
Settled(call, error) ==
    [call |-> call,
     status |-> IF error = "" THEN "resolved" ELSE "rejected",
     value |-> <<>>, error |-> error]

\* the same, keeping the arguments of the call
SettledWith(call, arguments, error) ==
    [Settled(call, error) EXCEPT !.value = arguments]

\* the caller's component.createInstance(componentId, instanceId, data)
CreateInstanceCall ==
    /\ opCount < MaxRelOps
    /\ opCount' = opCount + 1
    /\ \E comp \in {"parent", "child"} :
         \E id \in RelIds(comp) :
            \E data \in RelData(comp) :
               instances' = CreateInstance(components, instances, comp, id,
                                           data)
    /\ ret' = Settled("createInstance", "")
    /\ UNCHANGED relUnchanged

\* the caller's component.createInstanceInOrder(instanceId, data, order)
CreateInstanceInOrderCall ==
    /\ opCount < MaxRelOps
    /\ opCount' = opCount + 1
    /\ \E comp \in {"parent", "child"} :
         \E id \in RelOrderedIds(comp) :
            \E data \in {EmptyObject} :
               \E order \in RelOrders :
                  LET r == CreateInstanceInOrder(components, instances, comp,
                                                 id, data, order)
                  IN  /\ instances' = r.insts
                      /\ ret' = Settled("createInstanceInOrder", r.error)
    /\ UNCHANGED relUnchanged

\* the caller's component.setInstanceParent(childInstanceId, parentInstanceId)
SetInstanceParentCall ==
    /\ opCount < MaxRelOps
    /\ opCount' = opCount + 1
    /\ \E child \in RelIds("child") :
         \E parent \in RelIds("parent") :
            LET r == SetInstanceParent(components, instances, child, parent)
            IN  /\ instances' = r.insts
                /\ ret' = Settled("setInstanceParent", r.error)
    /\ UNCHANGED relUnchanged

\* the caller's component.clearInstances()
ClearInstancesCall ==
    /\ opCount < MaxRelOps
    /\ opCount' = opCount + 1
    /\ \E comp \in {"parent", "child"} :
          instances' = ClearInstances(instances, comp)
    /\ ret' = Settled("clearInstances", "")
    /\ UNCHANGED relUnchanged

RelSpec ==
    /\ RelInit
    /\ [][\/ CreateInstanceCall
          \/ CreateInstanceInOrderCall
          \/ SetInstanceParentCall
          \/ ClearInstancesCall]_vars

\* the callers that create instances in order: createInstanceInOrder, with
\* createInstance and clearInstances to build and empty the stores, and no
\* relinking
OrderSpec ==
    /\ RelInit
    /\ [][\/ CreateInstanceCall
          \/ CreateInstanceInOrderCall
          \/ ClearInstancesCall]_vars

\* number of calls the linking caller makes in one behaviour
MaxLinkOps == 5

\* the callers that link instances: createInstance to build the stores and
\* setInstanceParent to link and relink them
LinkSpec ==
    /\ RelInit
    /\ [][\/ opCount < MaxLinkOps /\ CreateInstanceCall
          \/ opCount < MaxLinkOps /\ SetInstanceParentCall]_vars

\* number of calls made in one behaviour by the caller that links any ids
MaxEdgeOps == 4

\* the caller's component.setInstanceParent(childInstanceId,
\* parentInstanceId) with any two ids: ids of either component on either
\* side, ids of instances that were not created, and ghost_1, whose prefix
\* names no component
SetInstanceParentAny ==
    /\ opCount < MaxEdgeOps
    /\ opCount' = opCount + 1
    /\ \E child, parent \in
            RelIds("parent") \cup RelIds("child") \cup {"ghost_1"} :
         LET r == SetInstanceParent(components, instances, child, parent)
         IN  /\ instances' = r.insts
             /\ ret' = SettledWith("setInstanceParent", <<child, parent>>,
                                   r.error)
    /\ UNCHANGED relUnchanged

\* the callers that create, link in any way and clear instances
EdgeSpec ==
    /\ RelInit
    /\ [][\/ opCount < MaxEdgeOps /\ CreateInstanceCall
          \/ SetInstanceParentAny
          \/ opCount < MaxEdgeOps /\ ClearInstancesCall]_vars

(***************************************************************************)
(* The caller that creates every instance with createInstanceInOrder and   *)
(* one fixed COMPONENT_ORDER, and never clears.                            *)
(***************************************************************************)
FullOrder == <<"system", "parent", "child">>

\* the instance ids this caller uses for each component
TopDownIds(comp) ==
    CASE comp = "system" -> {"system_1"}
      [] comp = "parent" -> {"parent_1", "parent_2"}
      [] comp = "child" -> {"child_1", "child_2"}
      [] OTHER -> {}

\* the caller's component.createInstanceInOrder(instanceId, {}, FullOrder)
CreateInOrder ==
    /\ opCount < MaxRelOps
    /\ opCount' = opCount + 1
    /\ \E comp \in Range(FullOrder) :
         \E id \in TopDownIds(comp) :
            LET r == CreateInstanceInOrder(components, instances, comp, id,
                                           EmptyObject, FullOrder)
            IN  /\ instances' = r.insts
                /\ ret' = Settled("createInstanceInOrder", r.error)
                /\ created' = IF r.error = "" 
                               THEN Append(created,
                                           [component |-> comp, id |-> id])
                               ELSE created
    /\ UNCHANGED <<components, eventHandlers, eventQueue, pc, current, result,
                   outcome, appended, handled, queued, calls, frames, invoked,
                   onCalls, usedInstanceIds>>

TopDownSpec == RelInit /\ [][CreateInOrder]_vars

(***************************************************************************)
(* The component hierarchy: createComponent with a parent, setParent,      *)
(* getChildren, getDescendants, getAncestors.                              *)
(***************************************************************************)
\* number of createComponent and setParent calls
MaxCompOps == 3
\* number of loop iterations after which a traversal is taken not to return
MaxVisits == 12

\* what a traversal that never returns yields
Diverges == <<"diverges">>

\* Component.getChildren(): the registered components among the recorded
\* children, in the order recorded
GetChildren(comps, name) ==
    LET IsRegistered(child) == HasComponent(comps, child)
    IN  SelectSeq(MapGet(comps, name).children, IsRegistered)

RECURSIVE DescendantsLoopDepthFirst(_, _, _, _)
\* a traversal that visits the children of a component before its siblings
DescendantsLoopDepthFirst(comps, queue, descendants, visits) ==
    IF Len(queue) = 0 THEN descendants
    ELSE IF visits = 0 THEN Diverges
    ELSE DescendantsLoopDepthFirst(comps,
            GetChildren(comps, Head(queue)) \o Tail(queue),
            Append(descendants, Head(queue)), visits - 1)

RECURSIVE DescendantsLoop(_, _, _, _)
\* getDescendants, while (queue.length > 0): shift, push on descendants,
\* push the children on the queue
DescendantsLoop(comps, queue, descendants, visits) ==
    IF Len(queue) = 0 THEN descendants
    ELSE IF visits = 0 THEN Diverges
    ELSE DescendantsLoop(comps,
            Tail(queue) \o GetChildren(comps, Head(queue)),
            Append(descendants, Head(queue)), visits - 1)

\* System.getDescendants(componentName), as component names
GetDescendants(comps, name) ==
    IF ~HasComponent(comps, name) THEN <<>>
    ELSE DescendantsLoop(comps, GetChildren(comps, name), <<>>, MaxVisits)

RECURSIVE AncestorsLoopOnce(_, _, _, _)
\* a getAncestors that stops at a component it has listed already
AncestorsLoopOnce(comps, currentName, ancestors, visits) ==
    IF currentName = Undefined \/ currentName \in Range(ancestors)
    THEN ancestors
    ELSE IF visits = 0 THEN Diverges
    ELSE AncestorsLoopOnce(comps, GetParent(comps, currentName),
                           Append(ancestors, currentName), visits - 1)

RECURSIVE AncestorsLoop(_, _, _, _)
\* getAncestors, while (current): push, current = current.getParent()
AncestorsLoop(comps, currentName, ancestors, visits) ==
    IF currentName = Undefined THEN ancestors
    ELSE IF visits = 0 THEN Diverges
    ELSE AncestorsLoop(comps, GetParent(comps, currentName),
                       Append(ancestors, currentName), visits - 1)

\* System.getAncestors(componentName), as component names
GetAncestors(comps, name) ==
    IF ~HasComponent(comps, name) THEN <<>>
    ELSE AncestorsLoop(comps, GetParent(comps, name), <<>>, MaxVisits)

\* the names the caller creates components under
CompNames == {"parent", "child1", "child2"}

\* the caller's system.createComponent(name, {}, parent)
CreateComponentCall ==
    /\ opCount < MaxCompOps
    /\ opCount' = opCount + 1
    /\ \E name \in CompNames :
         \E parent \in CompNames \cup {"system", Undefined} :
            /\ components' = CreateChildComponent(components, name,
                                                  EmptyObject, parent)
            /\ ret' = SettledWith("createComponent",
                                  [name |-> name, parent |-> parent], "")
    /\ UNCHANGED <<instances, eventHandlers, eventQueue, pc, current, result,
                   outcome, appended, handled, queued, calls, frames, invoked,
                   asideVars>>

\* the caller's component.setParent(parent) on a registered component
SetParentCall ==
    /\ opCount < MaxCompOps
    /\ opCount' = opCount + 1
    /\ \E name \in CompNames : \E parent \in CompNames \cup {"system"} :
         /\ HasComponent(components, name)
         /\ components' = SetParent(components, name, parent)
         /\ ret' = SettledWith("setParent",
                               [name |-> name, parent |-> parent], "")
    /\ UNCHANGED <<instances, eventHandlers, eventQueue, pc, current, result,
                   outcome, appended, handled, queued, calls, frames, invoked,
                   asideVars>>

CompSpec ==
    /\ AtRest(CreateComponent(<<>>, "system", EmptyObject), <<>>, <<>>)
    /\ [][CreateComponentCall \/ SetParentCall]_vars

(***************************************************************************)
(* The typed variant: createSystemManager(initialState) with the system of *)
(* the typed fridge-system test.  The component data is kept in            *)
(* `instances` (component name -> data), manager.queue in `eventQueue`,    *)
(* every entry ever pushed in `appended`, every action run in `invoked`.   *)
(* The caller awaits each processEvent call before making the next one.    *)
(***************************************************************************)
\* number of manager.processEvent and manager.resetInstanceIds calls
MaxTypedCalls == 3

\* Object.keys(manager.state)
TypedComponents == <<"person", "fridge">>

Stateful(v) == [type |-> "stateful", value |-> v]

\* the data of the initial state
TypedData ==
    [person |-> [id |-> [type |-> "immutable", value |-> "person"],
                 isHungry |-> Stateful(FALSE),
                 movementMethod |-> Stateful("walking"),
                 food |-> Stateful(<<>>)],
     fridge |-> [id |-> [type |-> "immutable", value |-> "fridge"],
                 food |-> Stateful(<<"pizza", "salad", "ice cream">>),
                 isOpen |-> Stateful(FALSE)]]

\* state[component].events: the action and the send list of each event
TypedEvents(component) ==
    IF component = "person"
    THEN [STARTED_MOVING |->
            [action |-> "StartedMoving",
             send |-> <<[event |-> "ARRIVED_AT_FRIDGE",
                         data |-> [instanceId |-> "person_2",
                                   movementMethod |-> "walking"]]>>],
          FELT_HUNGER |->
            [action |-> "FeltHunger",
             send |-> <<[event |-> "STARTED_MOVING",
                         data |-> [instanceId |-> "person_2",
                                   movementMethod |-> "walking"]]>>]]
    ELSE [OPENED_FRIDGE |->
            [action |-> "OpenedFridge",
             send |-> <<[event |-> "FOOD_FOUND",
                         data |-> [instanceId |-> "fridge_1",
                                   movementMethod |-> "walking",
                                   food |-> <<"pizza">>]]>>]]

\* await action.action(data, state): the update the action returns
TypedAction(action, data) ==
    CASE action = "StartedMoving" ->
           [person |-> [data |-> [movementMethod |->
                                     Stateful(Get(data, "movementMethod"))]]]
      [] action = "FeltHunger" ->
           [person |-> [data |-> [isHungry |-> Stateful(TRUE),
                                  movementMethod |-> Stateful("walking"),
                                  food |-> Stateful(<<>>)]]]
      [] action = "OpenedFridge" ->
           [fridge |-> [data |-> [isOpen |-> Stateful(TRUE)]]]

\* manager.applyUpdate(update): every key of the current data takes the
\* changed value when the update has one
ApplyUpdate(state, update) ==
    [c \in DOMAIN state |->
        IF c \in DOMAIN update
        THEN [key \in DOMAIN state[c] |->
                 IF key \in DOMAIN update[c].data THEN update[c].data[key]
                 ELSE state[c][key]]
        ELSE state[c]]

\* the components whose events[event].action is set, in key order
HandlingComponents(event) ==
    LET Handles(c) == event \in DOMAIN TypedEvents(c)
    IN  SelectSeq(TypedComponents, Handles)

\* a validation that has forgotten the ids it accepted
ValidateInstanceIdForgetful(used, event, data) ==
    IF "instanceId" \notin DOMAIN data THEN ""
    ELSE IF /\ Len(HandlingComponents(event)) > 0
            /\ Prefix(data.instanceId) \notin Range(HandlingComponents(event))
    THEN "Invalid instance ID"
    ELSE ""

\* processEvent, the validation of data.instanceId: the error thrown, ""
\* when the id is accepted or absent
ValidateInstanceId(used, event, data) ==
    IF "instanceId" \notin DOMAIN data THEN ""
    ELSE IF data.instanceId \in used THEN "Duplicate instance ID"
    ELSE IF /\ Len(HandlingComponents(event)) > 0
            /\ Prefix(data.instanceId) \notin Range(HandlingComponents(event))
    THEN "Invalid instance ID"
    ELSE ""

RECURSIVE RunActions(_, _, _, _)
\* for (const componentKey of Object.keys(this.state)), from the i-th key:
\* run the action of current.event with the data of the call, apply its
\* update, push its send list
RunActions(m, i, currentEntry, data) ==
    IF i > Len(TypedComponents) THEN m
    ELSE LET c == TypedComponents[i]
         IN  IF currentEntry.event \notin DOMAIN TypedEvents(c)
             THEN RunActions(m, i + 1, currentEntry, data)
             ELSE LET action == TypedEvents(c)[currentEntry.event]
                      updates == TypedAction(action.action, data)
                  IN  RunActions(
                        [state |-> ApplyUpdate(m.state, updates),
                         queue |-> m.queue \o action.send,
                         log |-> m.log \o action.send,
                         ran |-> Append(m.ran, [component |-> c,
                                          event |-> currentEntry.event])],
                        i + 1, currentEntry, data)

RECURSIVE ProcessQueue(_, _)
\* while (this.queue.length > 0): shift and run the actions
ProcessQueue(m, data) ==
    IF Len(m.queue) = 0 THEN m
    ELSE ProcessQueue(
           RunActions([m EXCEPT !.queue = Tail(@)], 1, Head(m.queue), data),
           data)

\* the payloads the caller passes to manager.processEvent
TypedPayloads ==
    {[movementMethod |-> "wheelchair"]}
    \cup [instanceId : {"person_1", "fridge_1", "fridge_2"},
          movementMethod : {"wheelchair"}]

\* await manager.processEvent(event, data), from the call to its settling
ManagerProcessEvent ==
    /\ opCount < MaxTypedCalls
    /\ opCount' = opCount + 1
    /\ \E event \in {"SYSTEM_INITIALIZED", "FELT_HUNGER", "STARTED_MOVING",
                     "OPENED_FRIDGE"} :
       \E data \in TypedPayloads :
         LET error == ValidateInstanceId(usedInstanceIds, event, data)
             entry == [event |-> event, data |-> data]
             m == ProcessQueue([state |-> instances,
                                queue |-> Append(eventQueue, entry),
                                log |-> Append(appended, entry),
                                ran |-> invoked], data)
         IN  /\ ret' = SettledWith("processEvent", entry, error)
             /\ IF error # ""
                THEN UNCHANGED <<instances, eventQueue, appended, invoked,
                                 usedInstanceIds>>
                ELSE /\ usedInstanceIds' =
                          IF "instanceId" \in DOMAIN data
                          THEN usedInstanceIds \cup {data.instanceId}
                          ELSE usedInstanceIds
                     /\ instances' = m.state
                     /\ eventQueue' = m.queue
                     /\ appended' = m.log
                     /\ invoked' = m.ran
    /\ UNCHANGED <<components, eventHandlers, pc, current, result, outcome,
                   handled, queued, calls, frames, created, onCalls>>

\* manager.resetInstanceIds()
ResetInstanceIds ==
    /\ opCount < MaxTypedCalls
    /\ opCount' = opCount + 1
    /\ usedInstanceIds' = {}
    /\ ret' = Settled("resetInstanceIds", "")
    /\ UNCHANGED <<instances, eventQueue, appended, invoked>>
    /\ UNCHANGED <<components, eventHandlers, pc, current, result, outcome,
                   handled, queued, calls, frames, created, onCalls>>

TypedSpec ==
    /\ AtRest(<<>>, TypedData, <<>>)
    /\ [][ManagerProcessEvent \/ ResetInstanceIds]_vars

(***************************************************************************)
(* Properties of the dispatcher.                                           *)
(***************************************************************************)
\* the component and the handler of a logged entry both exist
IsHandleable(e) ==
    /\ HasComponent(components, e.component)
    /\ HasHandler(eventHandlers, e.component, e.event)

QueuedSeqs == {eventQueue[i].seq : i \in DOMAIN eventQueue}

PoppedSeqs == (1 .. Len(appended)) \ QueuedSeqs

IsPrefix(s, t) == Len(s) <= Len(t) /\ SubSeq(t, 1, Len(s)) = s

EventOf(seq) == appended[seq].event

\* a processEvents call has returned normally and nothing is queued
Drained == pc = "idle" /\ outcome.status = "resolved" /\ eventQueue = <<>>

\* C1: handlers are invoked in the order in which the events were appended
\* to the queue, and every event that has left the queue and whose component
\* and handler exist has had its handler invoked exactly once; events still
\* queued were appended after every event that has left the queue.
C1_FifoOrder ==
    /\ \A i, j \in DOMAIN handled : i < j => handled[i] < handled[j]
    /\ Range(handled) = {s \in PoppedSeqs : IsHandleable(appended[s])}
    /\ \A p \in PoppedSeqs : \A q \in QueuedSeqs : p < q
    /\ Drained =>
          Range(handled) =
             {s \in 1 .. Len(appended) : IsHandleable(appended[s])}

\* C1 witness: E1 queued and drained, the handlers ran in order 1, 2, 3
C1_Witness ==
    /\ Drained
    /\ Len(appended) = 3
    /\ EventOf(1) = "EVENT_1_OCCURRED"
    /\ EventOf(2) = "EVENT_2_OCCURRED"
    /\ EventOf(3) = "EVENT_3_OCCURRED"
    /\ handled = <<1, 2, 3>>

\* C2: while an event is being processed the queue only grows at its tail:
\* what was queued stays in front, in the same order, of what the handler
\* sends; and with CHAIN_A_STARTED and CHAIN_B_STARTED queued first and
\* second, CHAIN_B_STARTED is handled before anything appended later,
\* CHAIN_A_COMPLETED included.
C2_SendsAtTail ==
    /\ [][pc = "awaiting" => IsPrefix(eventQueue, eventQueue')]_vars
    /\ [](\A i \in DOMAIN handled :
             (/\ Len(appended) >= 2
              /\ EventOf(1) = "CHAIN_A_STARTED"
              /\ EventOf(2) = "CHAIN_B_STARTED"
              /\ handled[i] > 2)
             => \E j \in 1 .. i - 1 : handled[j] = 2)

\* C2 witness: the two chains ran interleaved, A1 B1 A2 B2
C2_Witness ==
    /\ Len(appended) = 4
    /\ EventOf(1) = "CHAIN_A_STARTED"
    /\ EventOf(2) = "CHAIN_B_STARTED"
    /\ EventOf(3) = "CHAIN_A_COMPLETED"
    /\ EventOf(4) = "CHAIN_B_COMPLETED"
    /\ handled = <<1, 2, 3, 4>>

\* a processEvents call has rejected
Rejected == pc = "idle" /\ outcome.status = "rejected"

\* the sends of the pending result would exceed the bound of the model
Capped ==
    /\ pc = "awaiting"
    /\ "throw" \notin DOMAIN result
    /\ "send" \in DOMAIN result
    /\ Len(appended) + Len(result.send) > MaxAppended
    /\ "update" \in DOMAIN result =>
          HasInstance(instances, current.component, current.instanceId)

\* C3: a processEvents call eventually returns (unless a handler throws, and
\* then it rejects, or the cascade outgrows the bound of the model); when it
\* returns normally the queue is empty; calling and returning leave the
\* instance records as they are, so state carries over to the next drain.
C3_DrainReturns ==
    /\ (pc # "idle") ~> (Drained \/ Rejected \/ Capped)
    /\ [][(pc # "idle" /\ pc' = "idle" /\ outcome'.status = "resolved")
            => eventQueue' = <<>>]_vars
    /\ [][(pc = "idle" \/ pc' = "idle") => instances' = instances]_vars

\* C3 witness: a second processEvents call has returned with the queue
\* empty, after a cascade of sends, the update of AGE_UPDATED being stored
C3_Witness ==
    /\ Drained
    /\ calls = 2
    /\ Len(appended) > queued
    /\ \E i \in DOMAIN handled : EventOf(handled[i]) = "AGE_UPDATED"
    /\ GetInstance(instances, "person", "person_1").age = 30

\* the step that completes the processing of the current event normally
Completes == pc = "awaiting" /\ pc' = "loop"

\* C4: whenever the handler's result has a send list, the step that
\* completes the event appends one queue entry per send entry, in list order.
C4_EverySendQueued ==
    [][(Completes /\ "send" \in DOMAIN result)
         => /\ Len(eventQueue') = Len(eventQueue) + Len(result.send)
            /\ \A i \in DOMAIN result.send :
                  /\ eventQueue'[Len(eventQueue) + i].event =
                        result.send[i].event
                  /\ eventQueue'[Len(eventQueue) + i].data =
                        result.send[i].data]_vars

\* C5: every entry the completing step appends for a send entry targets
\* entry.component when given and the processed component otherwise, targets
\* data.instanceId when the payload has that key and the processed instance
\* otherwise, and carries the entry's event name and payload.
C5_SendTargets ==
    [][Completes =>
         \A i \in 1 .. (Len(eventQueue') - Len(eventQueue)) :
            LET q == eventQueue'[Len(eventQueue) + i]
                entry == result.send[i]
            IN  /\ q.component = IF "component" \in DOMAIN entry
                                 THEN entry.component
                                 ELSE current.component
                /\ q.instanceId = IF "instanceId" \in DOMAIN entry.data
                                  THEN entry.data.instanceId
                                  ELSE current.instanceId
                /\ q.event = entry.event
                /\ q.data = entry.data]_vars

\* C5 witness: ARRIVED_AT_FRIDGE on person_1 queued OPENED_FRIDGE for
\* fridge / fridge_1 (explicit component, data.instanceId), and the
\* OPENED_FRIDGE handler's FOOD_FOUND, whose payload has no instanceId,
\* targets person / fridge_1
C5_Witness ==
    /\ Len(appended) >= 3
    /\ EventOf(1) = "ARRIVED_AT_FRIDGE"
    /\ appended[2] = [component |-> "fridge", instanceId |-> "fridge_1",
                      event |-> "OPENED_FRIDGE",
                      data |-> [instanceId |-> "fridge_1",
                                movementMethod |-> "walking",
                                personId |-> "person_1",
                                requestedFood |-> <<"pizza">>,
                                targetInstanceId |-> "fridge_1"]]
    /\ appended[3].component = "person"
    /\ appended[3].instanceId = "fridge_1"
    /\ EventOf(3) = "FOOD_FOUND"

\* the record of the instance the current event is addressed to
CurrentRecord(insts) ==
    MapGet(insts[current.component], current.instanceId)

\* the completing step applies an update to the current instance
AppliesUpdate ==
    /\ Completes
    /\ "update" \in DOMAIN result
    /\ HasInstance(instances, current.component, current.instanceId)

\* C6: applying an update changes exactly the keys the update names: those
\* keys get the update's values, keys that were absent are added, and every
\* other key of the record keeps its value.
C6_MergeKeepsOtherKeys ==
    [][AppliesUpdate =>
         LET old == CurrentRecord(instances)
             new == CurrentRecord(instances')
         IN  /\ DOMAIN new = DOMAIN old \cup DOMAIN result.update
             /\ \A k \in DOMAIN result.update : new[k] = result.update[k]
             /\ \A k \in DOMAIN old \ DOMAIN result.update :
                   new[k] = old[k]]_vars

\* C6 witness: Alice, age 20, after the update {age: 30}
C6_Witness ==
    /\ \E i \in DOMAIN handled : EventOf(handled[i]) = "AGE_UPDATED"
    /\ LET alice == GetInstance(instances, "person", "person_1")
       IN  /\ alice.name = "Alice"
           /\ alice.age = 30
           /\ alice.isHungry = FALSE
           /\ alice.movementMethod = "walking"

\* C7: the value stored at a key named by the update is the update's value
\* and nothing else: after {stats: {strength: 15}} the stored stats has the
\* key strength only, and the fridge's food array is the array of the update.
C7_ValuesReplaced ==
    /\ [][AppliesUpdate =>
            \A k \in DOMAIN result.update \cap {"stats", "food"} :
               /\ DOMAIN CurrentRecord(instances')[k] =
                     DOMAIN result.update[k]
               /\ CurrentRecord(instances')[k] = result.update[k]]_vars
    /\ [](GetInstance(instances, "complexPerson", "person_1").stats \in
             {[strength |-> 10, speed |-> 10], [strength |-> 15]})
    /\ [](GetInstance(instances, "fridge", "fridge_1").food \in
             {<<"pizza", "salad", "ice cream">>, <<"salad", "ice cream">>})

\* C7 witness: stats was replaced by {strength: 15}, food by the rest
C7_Witness ==
    /\ GetInstance(instances, "complexPerson", "person_1").stats =
          [strength |-> 15]
    /\ GetInstance(instances, "fridge", "fridge_1").food =
          <<"salad", "ice cream">>

\* C8: a step changes the instance stores only while an event is being
\* processed, and then only the record of the instance the event is
\* addressed to, in the component it is addressed to: no instance is added
\* or removed, and every other record of every component is unchanged.
C8_OnlyTargetChanges ==
    [][instances' # instances =>
         /\ pc = "awaiting"
         /\ \A c \in DOMAIN instances :
               /\ Len(instances'[c]) = Len(instances[c])
               /\ \A i \in DOMAIN instances[c] :
                     \/ /\ c = current.component
                        /\ instances[c][i].id = current.instanceId
                        /\ instances'[c][i].id = current.instanceId
                     \/ instances'[c][i] = instances[c][i]]_vars

\* C8 witness: NOTIFIED_BOTH on person_1 stored isHungry on person_1 and sent
\* STARTED_MOVING to person_2: person_1 is hungry and keeps its age and its
\* movementMethod, person_2 has the movementMethod of its event and keeps its
\* age and isHungry, and the instance person_1 of complexPerson is as created
C8_Witness ==
    /\ Drained
    /\ LET p1 == GetInstance(instances, "person", "person_1")
           p2 == GetInstance(instances, "person", "person_2")
       IN  /\ p1.isHungry /\ p1.age = 20 /\ p1.movementMethod = "walking"
           /\ ~p2.isHungry /\ p2.age = 25 /\ p2.movementMethod = "wheelchair"
    /\ instances["complexPerson"] = SetupInstances["complexPerson"]

\* the handler of the current event has thrown and processEvents has not
\* yet resumed
ThrowPending == pc = "awaiting" /\ "throw" \in DOMAIN result

\* C9: when the handler throws, the call rejects with the handler's error and
\* stops: the step that resumes processEvents ends the call with that error,
\* leaves the instance records and the queue as they are and invokes no
\* handler; and no handler is invoked again before processEvents is called
\* again.
C9_ThrowStops ==
    /\ [][ThrowPending =>
            /\ instances' = instances
            /\ handled' = handled
            /\ pc' # pc =>
                  /\ pc' = "idle"
                  /\ outcome' = [status |-> "rejected",
                                 error |-> result.throw]
                  /\ eventQueue' = eventQueue]_vars
    /\ [][Rejected => (handled' = handled /\ instances' = instances)]_vars

\* C9 witness: the call rejected with the handler's error, the event queued
\* behind the failing one is still queued and was not handled
C9_Witness ==
    /\ Rejected
    /\ outcome.error = "Test error"
    /\ Len(appended) = 2
    /\ EventOf(1) = "ERROR_OCCURRED"
    /\ EventOf(2) = "AGE_UPDATED"
    /\ handled = <<1>>
    /\ QueuedSeqs = {2}
    /\ instances = SetupInstances

\* the loop is about to shift an entry whose component or handler is missing
SkipPending ==
    /\ pc = "loop"
    /\ Len(eventQueue) > 0
    /\ ~IsHandleable(Head(eventQueue))

\* C10: an entry whose component is not registered or has no handler for
\* the event is shifted off the queue without invoking a handler, changing
\* an instance record or ending the call; the entries behind it stay queued
\* in order and the loop goes on.
C10_SkipsUnhandleable ==
    [][SkipPending =>
         /\ handled' = handled
         /\ instances' = instances
         /\ pc' = "loop"
         /\ outcome' = outcome
         /\ \/ eventQueue' = Tail(eventQueue)
            \/ IsPrefix(eventQueue, eventQueue')]_vars

\* C10 witness: an entry for an unregistered component and an entry without
\* handler were skipped, the entry behind them was handled, the call
\* returned and no record changed
C10_Witness ==
    /\ Drained
    /\ Len(appended) = 4
    /\ appended[1].component = "nonexistent"
    /\ EventOf(2) = "INVALID_EVENT_TYPE"
    /\ EventOf(3) = "CHAIN_A_STARTED"
    /\ EventOf(4) = "CHAIN_A_COMPLETED"
    /\ handled = <<3, 4>>
    /\ instances = SetupInstances

\* the handler of the current event returned an update and the instance the
\* event is addressed to is not in the component's store
MissingInstancePending ==
    /\ pc = "awaiting"
    /\ "throw" \notin DOMAIN result
    /\ "update" \in DOMAIN result
    /\ ~HasInstance(instances, current.component, current.instanceId)

\* C11: an update for an instance that is not in the store is dropped: the
\* step that resumes processEvents changes no instance store (the instance
\* is not created), does not end the call and leaves the queue to the next
\* iteration of the loop; the id "nonexistent" is never in the person store.
C11_MissingInstanceDropped ==
    /\ [][MissingInstancePending =>
            /\ instances' = instances
            /\ pc' # pc =>
                  /\ pc' = "loop"
                  /\ outcome' = outcome
                  /\ outcome.status = "pending"
                  /\ eventQueue' = eventQueue]_vars
    /\ [](~HasInstance(instances, "person", "nonexistent"))

\* C11 witness: FELT_HUNGER for the missing instance was handled, the
\* AGE_UPDATED queued behind it and its notification were handled after it,
\* the call returned and the instance still does not exist
C11_Witness ==
    /\ Drained
    /\ Len(appended) = 3
    /\ EventOf(1) = "FELT_HUNGER"
    /\ appended[1].instanceId = "nonexistent"
    /\ EventOf(2) = "AGE_UPDATED"
    /\ handled = <<1, 2, 3>>
    /\ GetInstance(instances, "person", "nonexistent") = Undefined
    /\ GetInstance(instances, "person", "person_1").age = 30

\* C12: a handler is invoked only when no handler is in flight and the
\* result of the previous one has been applied; while a handler is in
\* flight no entry leaves the queue; the update and the sends of an event
\* are applied in one step, so that the handler of AGE_CHANGE_NOTIFIED, sent
\* by AGE_UPDATED, runs when the age of its event is already stored.
C12_OneHandlerInFlight ==
    /\ [][handled' # handled =>
            /\ pc = "loop" /\ current = None /\ result = None
            /\ Len(handled') = Len(handled) + 1]_vars
    /\ [][Len(eventQueue') < Len(eventQueue) => pc = "loop"]_vars
    /\ [][(AppliesUpdate /\ "send" \in DOMAIN result) =>
            /\ CurrentRecord(instances') =
                  ObjectAssign(CurrentRecord(instances), result.update)
            /\ Len(eventQueue') = Len(eventQueue) + Len(result.send)]_vars
    /\ []((pc = "awaiting" /\ current.event = "AGE_CHANGE_NOTIFIED") =>
            GetInstance(instances, "person", current.instanceId).age =
               current.data.age)

\* C12 witness: AGE_CHANGE_NOTIFIED is in flight with the age 30 stored,
\* while an event queued by the caller waits in the queue
C12_Witness ==
    /\ pc = "awaiting"
    /\ current.event = "AGE_CHANGE_NOTIFIED"
    /\ GetInstance(instances, "person", "person_1").age = 30
    /\ Len(eventQueue) > 0

(***************************************************************************)
(* Properties of Component.processEvent.                                   *)
(***************************************************************************)
\* the handler invocation recorded at position i of the history is one
\* after which the claim says the event goes to the parent instance: send
\* undefined, a declared parent component, a propagating event name and a
\* parentInstanceId that names an instance of the parent component
InvocationBubbles(i) ==
    LET e == invoked[i]
        pcomp == MapGet(components, e.component).parent
        pid == Get(MapGet(instances[e.component], e.instanceId),
                   "parentInstanceId")
    IN  /\ ~e.sendDefined
        /\ pcomp # Undefined
        /\ e.event \notin {"init", "destroy", "update", "childUpdate"}
        /\ pid # Undefined
        /\ HasInstance(instances, pcomp, pid)

\* the invocation at position i + 1 is the parent's handler running for
\* the event of the invocation at position i
ParentInvokedNext(i) ==
    /\ i < Len(invoked)
    /\ LET e == invoked[i]
           n == invoked[i + 1]
       IN  /\ n.call = e.call
           /\ n.depth = e.depth + 1
           /\ n.component = MapGet(components, e.component).parent
           /\ n.instanceId = MapGet(instances[e.component],
                                    e.instanceId).parentInstanceId
           /\ n.event = e.event
           /\ n.data = e.data

\* C13: when the handler of an event settles with send undefined, on a
\* component with a declared parent, for an event other than init, destroy,
\* update and childUpdate, and the instance's parentInstanceId names an
\* instance of the parent component, processEvent is called on that parent
\* instance with the same event and payload; when the result has a send
\* list, empty or not, processEvent returns that list without calling the
\* parent; what the parent's call returns is appended to the events to
\* send; and a handler runs at depth > 1 only as the parent of the
\* invocation before it, once a call has settled every invocation that
\* bubbles is followed by its parent's when the parent has a handler.
C13_PropagatesToParent ==
    /\ [][(frames # <<>> /\ frames' # frames /\ Top.pc = "awaiting"
             /\ "throw" \notin DOMAIN Top.result) =>
            LET f == Top
                pcomp == MapGet(components, f.component).parent
                pid == Get(MapGet(instances'[f.component], f.instanceId),
                           "parentInstanceId")
                eligible ==
                    /\ "send" \notin DOMAIN f.result
                    /\ pcomp # Undefined
                    /\ f.event \notin {"init", "destroy", "update",
                                       "childUpdate"}
                    /\ pid # Undefined
                    /\ HasInstance(instances', pcomp, pid)
            IN  /\ eligible =>
                      /\ Len(frames') = Len(frames) + 1
                      /\ LET n == frames'[Len(frames')]
                         IN  /\ n.component = pcomp
                             /\ n.instanceId = pid
                             /\ n.event = f.event
                             /\ n.data = f.data
                             /\ n.pc = "start"
                /\ "send" \in DOMAIN f.result =>
                      /\ Len(frames') = Len(frames) - 1
                      /\ ret' = Resolved(f.result.send)]_vars
    /\ [][(frames # <<>> /\ frames' # frames /\ Top.pc = "propagating"
             /\ ret.status = "resolved") =>
            ret' = Resolved(Top.eventsToSend \o ret.value)]_vars
    /\ [](\A i \in DOMAIN invoked :
             invoked[i].depth > 1 =>
                /\ i > 1
                /\ InvocationBubbles(i - 1)
                /\ ParentInvokedNext(i - 1))
    /\ [](frames = <<>> =>
             \A i \in DOMAIN invoked :
                (/\ InvocationBubbles(i)
                 /\ HasHandler(eventHandlers,
                               MapGet(components, invoked[i].component).parent,
                               invoked[i].event))
                   => ParentInvokedNext(i))

\* C13 witness: notify on grandchild_1 ran the handlers of grandchild_1,
\* child_1 and parent_1 in that order and returned the parent's send; then
\* quiet on child_1, whose handler returns send: [], ran the child's
\* handler only and returned []
C13_Witness ==
    /\ frames = <<>>
    /\ opCount = 2
    /\ Len(invoked) = 4
    /\ invoked[1].instanceId = "grandchild_1" /\ invoked[1].event = "notify"
    /\ invoked[2].instanceId = "child_1" /\ invoked[2].depth = 2
    /\ invoked[3].instanceId = "parent_1" /\ invoked[3].depth = 3
    /\ invoked[3].data = [n |-> 2]
    /\ GetInstance(instances, "child", "child_1").seen = TRUE
    /\ invoked[4].instanceId = "child_1" /\ invoked[4].event = "quiet"
    /\ invoked[4].sendDefined
    /\ ret = Resolved(<<>>)


(***************************************************************************)
(* Properties of the instance relationships.                               *)
(***************************************************************************)
\* every instance stored in insts, in component order then insertion order
EntriesIn(insts) == FlatMapInstances(components, insts, 1)

IdsIn(insts) == {e.id : e \in Range(EntriesIn(insts))}

DataIn(insts, id) == (CHOOSE e \in Range(EntriesIn(insts)) : e.id = id).data

\* the parentInstanceId of a stored instance, Undefined when it has none
ParentIn(insts, id) == Get(DataIn(insts, id), "parentInstanceId")

\* the ids an instance lists as its siblings
ListedIn(insts, id) == Range(SiblingsOf(DataIn(insts, id)))

\* the childInstanceIds list of a stored instance, empty when it has none
ChildListIn(insts, id) ==
    IF "childInstanceIds" \in DOMAIN DataIn(insts, id)
    THEN DataIn(insts, id).childInstanceIds ELSE <<>>

\* the stored instances whose parentInstanceId is parent
CohortIn(insts, parent) ==
    {x \in IdsIn(insts) : ParentIn(insts, x) = parent}

\* the same, of the current state
EntryIds == IdsIn(instances)

DataOf(id) == DataIn(instances, id)

ParentOf(id) == ParentIn(instances, id)

ListedBy(id) == ListedIn(instances, id)

\* C14: whenever an instance A lists B in siblingInstanceIds, B is an
\* instance that lists A and A and B have the same parentInstanceId (or both
\* none), in every state reached by createInstance, createInstanceInOrder,
\* setInstanceParent and clearInstances
C14_SiblingSymmetry ==
    \A a \in EntryIds :
       \A b \in ListedBy(a) :
          /\ b \in EntryIds
          /\ a \in ListedBy(b)
          /\ ParentOf(a) = ParentOf(b)

\* the ids an instance lists as its children
ChildrenOf(id) == Range(ChildListIn(instances, id))

\* C15: whenever the parentInstanceId of an instance A is a stored instance
\* B, the childInstanceIds of B contains A, in every state reached by
\* createInstance (with or without parentInstanceId in the initial data) and
\* setInstanceParent
C15_ParentChildSymmetry ==
    \A a \in EntryIds :
       ParentOf(a) \in EntryIds => a \in ChildrenOf(ParentOf(a))

\* the children of parent were attached one after another with
\* setInstanceParent and are numbered in that order: they are exactly the
\* entries of its childInstanceIds, which setInstanceParent appends to, and the
\* i-th of them has siblingIndex i - 1
InAttachmentOrder(insts, parent) ==
    LET list == ChildListIn(insts, parent)
    IN  /\ CohortIn(insts, parent) = Range(list)
        /\ \A i, j \in DOMAIN list : list[i] = list[j] => i = j
        /\ \A i \in DOMAIN list :
              /\ Get(DataIn(insts, list[i]), "siblingIndex") = i - 1
              /\ ListedIn(insts, list[i]) = Range(list) \ {list[i]}

\* setInstanceParent(child, parent) has just returned, child being a stored
\* instance that was not under parent before
Attaches(child, parent) ==
    /\ ret'.call = "setInstanceParent"
    /\ ret'.status = "resolved"
    /\ child \in IdsIn(instances)
    /\ parent \in IdsIn(instances)
    /\ child \notin CohortIn(instances, parent)
    /\ instances' = SetInstanceParent(components, instances, child,
                                      parent).insts

\* C16: attaching one more instance to a parent whose children were attached
\* one after another and are numbered in attachment order leaves all of them
\* numbered in attachment order (the new one last) and listing one another,
\* whatever the order in which the instances were created
C16_AttachmentOrder ==
    [][\A parent \in RelIds("parent") :
          \A child \in RelIds("child") :
             (/\ Attaches(child, parent)
              /\ InAttachmentOrder(instances, parent))
             => /\ ChildListIn(instances', parent)
                     = Append(ChildListIn(instances, parent), child)
                /\ InAttachmentOrder(instances', parent)]_vars

\* the siblingIndex values found in the sibling group of id: the stored
\* instances with the same parentInstanceId, or all the parentless ones
GroupIndices(id) ==
    {Get(DataOf(x), "siblingIndex") : x \in CohortIn(instances, ParentOf(id))}

\* C17: the siblingIndex values inside each sibling group are pairwise
\* distinct and are exactly 0 .. n-1 for a group of n members
C17_IndicesAreZeroToN ==
    \A a \in EntryIds :
       GroupIndices(a)
          = 0 .. (Cardinality(CohortIn(instances, ParentOf(a))) - 1)

\* setInstanceParent(child, parent) has just returned, child being a stored
\* instance that had another parent before
Moves(child, parent) ==
    /\ ret'.call = "setInstanceParent"
    /\ ret'.status = "resolved"
    /\ child \in IdsIn(instances)
    /\ parent \in IdsIn(instances)
    /\ Truthy(ParentIn(instances, child))
    /\ ParentIn(instances, child) # parent
    /\ instances' = SetInstanceParent(components, instances, child,
                                      parent).insts

\* the siblingIndex values of the instances left under parent are 0 .. n-1
Renumbered(insts, parent) ==
    {Get(DataIn(insts, x), "siblingIndex") : x \in CohortIn(insts, parent)}
       = 0 .. (Cardinality(CohortIn(insts, parent)) - 1)

\* C18: after setInstanceParent(C, P2) on an instance C that had another
\* parent P1, no instance under P1 lists C, C lists exactly the other
\* instances under P2 and each of them lists C, and the instances left under
\* P1 are numbered 0 .. n-1
C18_Relinking ==
    [][\A parent \in RelIds("parent") :
          \A child \in RelIds("child") :
             Moves(child, parent)
             => LET former == ParentIn(instances, child)
                    others == CohortIn(instances', parent) \ {child}
                IN  /\ \A x \in CohortIn(instances', former) :
                          child \notin ListedIn(instances', x)
                    /\ ListedIn(instances', child) = others
                    /\ \A x \in others : child \in ListedIn(instances', x)
                    /\ Renumbered(instances', former)]_vars

\* createInstanceInOrder(id, {}, order) on the component comp has just
\* returned or thrown
OrderedCall(comp, id, order) ==
    /\ ret'.call = "createInstanceInOrder"
    /\ LET r == CreateInstanceInOrder(components, instances, comp, id,
                                      EmptyObject, order)
       IN  /\ instances' = r.insts
           /\ ret'.error = r.error

\* some component listed after comp in order has an instance
LaterHasInstance(comp, order) ==
    \E i, j \in DOMAIN order :
       /\ order[i] = comp
       /\ j > i
       /\ order[j] \in DOMAIN instances
       /\ instances[order[j]] # <<>>

\* C19: createInstanceInOrder on a component that is not listed in the order,
\* or while a component listed after it has an instance, throws and leaves
\* every instance record as it was; otherwise it returns having done what
\* createInstance does
C19_OrderedCreation ==
    [][\A comp \in {"parent", "child"} :
          \A id \in RelOrderedIds(comp) :
             \A order \in RelOrders :
                OrderedCall(comp, id, order)
                => IF comp \notin Range(order) \/ LaterHasInstance(comp, order)
                   THEN /\ ret'.status = "rejected"
                        /\ instances' = instances
                   ELSE /\ ret'.status = "resolved"
                        /\ instances' = CreateInstance(components, instances,
                                                       comp, id, EmptyObject)
                        /\ id \in IdsIn(instances')]_vars

\* a parent creation in order was refused because of the child instance
\* stored, which is still the only instance
C19_Witness ==
    /\ ret.status = "rejected"
    /\ ret.call = "createInstanceInOrder"
    /\ ret.error = "Cannot create instance after later instances"
    /\ instances["parent"] = <<>>
    /\ MapKeys(instances["child"]) = <<"child_1">>

\* C20 as claimed: with the order [system, parent, child],
\* createInstanceInOrder for a child instance throws while no parent instance
\* exists, and succeeds for a parent instance first and a child instance
\* afterwards
C20_ChildBeforeParentRaises ==
    [][\A id \in RelOrderedIds("child") :
          OrderedCall("child", id, FullOrder)
          => IF instances["parent"] = <<>>
             THEN ret'.status = "rejected"
             ELSE ret'.status = "resolved"]_vars

\* C20: with the order [system, parent, child], createInstanceInOrder for a
\* child instance succeeds whether or not a parent instance exists, and
\* createInstanceInOrder for a parent instance throws, creating nothing,
\* exactly when a child instance exists
C20_ParentAfterChildRaises ==
    [][/\ \A id \in RelOrderedIds("child") :
             OrderedCall("child", id, FullOrder)
             => /\ ret'.status = "resolved"
                /\ id \in IdsIn(instances')
       /\ \A id \in RelOrderedIds("parent") :
             OrderedCall("parent", id, FullOrder)
             => IF instances["child"] # <<>>
                THEN /\ ret'.status = "rejected"
                     /\ instances' = instances
                ELSE /\ ret'.status = "resolved"
                     /\ id \in IdsIn(instances')]_vars

\* a child instance has just been created in order while no parent instance
\* exists
C20_Witness ==
    /\ ret.status = "resolved"
    /\ ret.call = "createInstanceInOrder"
    /\ instances["parent"] = <<>>
    /\ MapKeys(instances["child"]) = <<"child_1">>
    /\ opCount = 1

\* the instances stored, as [component, id] records
StoredKeys == Range(FlatKeys(components, instances, 1))

\* C21: when every instance is created with createInstanceInOrder and one
\* fixed order, the creations happen in the order of the components: a
\* creation of a component listed earlier never comes after a creation of a
\* component listed later, every creation is still stored, and nothing else
\* is stored
C21_TopDown ==
    /\ \A i, j \in DOMAIN created :
          IndexOf(FullOrder, created[i].component)
             < IndexOf(FullOrder, created[j].component) => i < j
    /\ Range(created) = StoredKeys

\* the three levels have been created, top first, and a creation has been
\* refused since
C21_Witness ==
    /\ {created[i].component : i \in DOMAIN created}
          = {"system", "parent", "child"}
    /\ ret.status = "rejected"
    /\ ret.call = "createInstanceInOrder"

(***************************************************************************)
(* Properties of the fridge-system scenario.                               *)
(***************************************************************************)
\* the event names of the handlers run so far, in the order they ran
HandledEvents == [i \in DOMAIN handled |-> EventOf(handled[i])]

\* the caller queued exactly this one event and the queue has been drained
DrainedAfterOnly(input) ==
    /\ Drained
    /\ queued = 1
    /\ appended[1].component = input.component
    /\ appended[1].instanceId = input.instanceId
    /\ appended[1].event = input.event
    /\ appended[1].data = input.data

HungerChain ==
    <<"FELT_HUNGER", "STARTED_MOVING", "ARRIVED_AT_FRIDGE", "OPENED_FRIDGE",
      "FOOD_FOUND">>

\* the person has eaten the pizza and the fridge is open without it
FedFromFridge ==
    /\ HandledEvents = HungerChain
    /\ DataOf("person_1").isHungry = FALSE
    /\ DataOf("person_1").food = <<"pizza">>
    /\ DataOf("fridge_1").isOpen = TRUE
    /\ DataOf("fridge_1").food = <<"salad", "ice cream">>

\* C22: queueing FELT_HUNGER for the person with payload {food: [pizza]}
\* and draining runs the chain FELT_HUNGER, STARTED_MOVING,
\* ARRIVED_AT_FRIDGE, OPENED_FRIDGE, FOOD_FOUND and ends with person
\* {isHungry: false, food: [pizza]} and fridge {isOpen: true, food: [salad,
\* ice cream]}.
C22_HungerChain == DrainedAfterOnly(HungerWithoutFridge) => FedFromFridge

\* the same scenario when the payload also names the fridge to go to
HungerChainWithFridgeId == DrainedAfterOnly(HungerWithFridge) => FedFromFridge

(***************************************************************************)
(* Properties of the alarm-system walkthrough.                             *)
(***************************************************************************)
Sleeping(id) == DataOf(id).isSleeping

\* C23: queueing INITIALIZED_SYSTEM for system_instance and draining wakes
\* the parent, which wakes the child, which wakes the grandchild:
\* parent_susan, child_thomas and grandchild_richard all end with
\* isSleeping = false.
C23_EveryoneWakes ==
    DrainedAfterOnly(InitializedSystem) =>
       /\ Sleeping("parent_susan") = FALSE
       /\ Sleeping("child_thomas") = FALSE
       /\ Sleeping("grandchild_richard") = FALSE

(***************************************************************************)
(* Properties of the self-feeding handler.                                 *)
(***************************************************************************)
\* the handler calls made so far for TICK
TickCalls == {i \in DOMAIN handled : EventOf(handled[i]) = "TICK"}

\* C24: once the handler that always sends its own event has been called,
\* processEvents never returns: no call resolves any more (it can only be
\* ended by another handler throwing), and the queue is non-empty at every
\* later test of the loop condition.
C24_NeverReturns ==
    TickCalls # {} =>
       /\ outcome.status # "resolved"
       /\ pc = "idle" => outcome.status = "rejected"
       /\ pc = "loop" => eventQueue # <<>>

\* the self-feeding handler has run four times in a row and the loop is
\* about to pop its event again
C24_Witness ==
    /\ Cardinality(TickCalls) >= 4
    /\ pc = "loop"
    /\ outcome.status = "pending"
    /\ Len(eventQueue) = 1
    /\ eventQueue[1].event = "TICK"

(***************************************************************************)
(* Properties of the handler registry.                                     *)
(***************************************************************************)
\* the on calls made so far for this event on this component
OnCallsFor(c, e) ==
    {i \in DOMAIN onCalls : onCalls[i].component = c /\ onCalls[i].event = e}

\* the handler passed to the latest of them
LatestHandler(c, e) ==
    onCalls[CHOOSE i \in OnCallsFor(c, e) : \A j \in OnCallsFor(c, e) : j <= i]
       .handler

\* the instances of every component other than c are left as they are
OthersUntouched(c) ==
    \A d \in DOMAIN instances : d # c => instances'[d] = instances[d]

\* C25: each component holds at most one handler per event name, the one
\* passed to the latest on call for that name on that component; a dispatch
\* of the event to the component invokes that handler and no other, once;
\* and the handlers registered under one name on different components are
\* independent: the dispatch to one component is answered by that
\* component's handler and updates none of the other's instances.
C25_OneHandlerPerEvent ==
    /\ [][\A c \in DOMAIN eventHandlers :
            /\ DOMAIN eventHandlers'[c]
                  = {e \in {"RESTED"} : OnCallsFor(c, e)' # {}}
            /\ \A e \in DOMAIN eventHandlers'[c] :
                  eventHandlers'[c][e] = LatestHandler(c, e)']_vars
    /\ [][handled' # handled =>
            /\ Len(handled') = Len(handled) + 1
            /\ result' = CallHandler(
                            LatestHandler(current'.component, current'.event),
                            current'.instanceId, current'.data,
                            current'.component, instances)]_vars
    /\ [][instances' # instances => OthersUntouched(current.component)]_vars

\* person and robot each hold their own RESTED handler, the person's was
\* registered over an earlier one, both events have been dispatched and each
\* instance carries its own handler's update only
C25_Witness ==
    /\ Drained
    /\ Len(handled) = 2
    /\ Get(eventHandlers["person"], "RESTED") = "PersonRested"
    /\ Get(eventHandlers["robot"], "RESTED") = "RobotRested"
    /\ Cardinality(OnCallsFor("person", "RESTED")) = 2
    /\ onCalls[1].handler # "PersonRested"
    /\ DataOf("person_1").isHungry = FALSE
    /\ "isCharging" \notin DOMAIN DataOf("person_1")
    /\ DataOf("robot_1").isCharging = TRUE
    /\ "isHungry" \notin DOMAIN DataOf("robot_1")

(***************************************************************************)
(* Properties of the typed manager.                                        *)
(***************************************************************************)
\* this step is a manager.processEvent call whose payload has an instanceId
ValidatedCall ==
    /\ opCount' # opCount
    /\ ret'.call = "processEvent"
    /\ "instanceId" \in DOMAIN ret'.value.data

CallId == ret'.value.data.instanceId

CallHandlers == Range(HandlingComponents(ret'.value.event))

\* the call left the queue, the actions run and the data as they were
NothingDone ==
    /\ appended' = appended
    /\ eventQueue' = eventQueue
    /\ invoked' = invoked
    /\ instances' = instances
    /\ usedInstanceIds' = usedInstanceIds

\* C26 as stated: processEvent fails with 'Invalid instance ID' when the
\* prefix of payload.instanceId is not one of the components that have an
\* action for the event, and with 'Duplicate instance ID' when the id was
\* already accepted since the last resetInstanceIds; in both cases nothing
\* is enqueued, no action runs and no component data changes.
C26_RejectsInvalidAndDuplicate ==
    [][ValidatedCall =>
         /\ Prefix(CallId) \notin CallHandlers
               => ret'.error = "Invalid instance ID" /\ NothingDone
         /\ CallId \in usedInstanceIds
               => ret'.error = "Duplicate instance ID" /\ NothingDone]_vars

\* C26: processEvent fails with 'Duplicate instance ID' when
\* payload.instanceId was already accepted since the last resetInstanceIds,
\* and otherwise with 'Invalid instance ID' when at least one component has
\* an action for the event and the prefix of the id is not one of them; in
\* both cases nothing is enqueued, no action runs and no component data
\* changes.  Every other id is accepted and recorded.
C26_RejectsDuplicateThenInvalid ==
    [][ValidatedCall =>
         /\ CallId \in usedInstanceIds
               => ret'.error = "Duplicate instance ID" /\ NothingDone
         /\ (CallId \notin usedInstanceIds /\ CallHandlers # {}
                /\ Prefix(CallId) \notin CallHandlers)
               => ret'.error = "Invalid instance ID" /\ NothingDone
         /\ (CallId \notin usedInstanceIds
                /\ (CallHandlers = {} \/ Prefix(CallId) \in CallHandlers))
               => /\ ret'.error = ""
                  /\ usedInstanceIds' = usedInstanceIds \cup {CallId}
                  /\ Len(appended') > Len(appended)]_vars

\* a call has just been refused for reusing an id that an earlier call,
\* whose actions ran, had been accepted with
C26_Witness ==
    /\ ret.status = "rejected"
    /\ ret.call = "processEvent"
    /\ ret.error = "Duplicate instance ID"
    /\ ret.value.data.instanceId \in usedInstanceIds
    /\ Len(invoked) > 0
    /\ instances # TypedData

(***************************************************************************)
(* Properties of the component hierarchy.                                  *)
(***************************************************************************)
\* this step is the call `call` linking a component to a parent that was
\* registered before the call
Links(call) ==
    /\ opCount' # opCount
    /\ ret'.call = call
    /\ ret'.value.parent # ret'.value.name
    /\ HasComponent(components, ret'.value.parent)

\* after the step the child names the parent, the parent lists the child,
\* and the parent's earlier children are still listed first, in their order
LinkedBothWays ==
    LET name == ret'.value.name
        parent == ret'.value.parent
    IN  /\ GetParent(components', name) = parent
        /\ name \in Range(GetChildren(components', parent))
        /\ \/ GetChildren(components', parent)
                 = GetChildren(components, parent)
           \/ GetChildren(components', parent)
                 = Append(GetChildren(components, parent), name)

\* C27: component-level parent/child links are symmetric: after
\* createComponent(child, model, 'P') with P already registered, and after
\* child.setParent('P'), child.getParent() is P and P.getChildren() contains
\* child, the children being listed in the order they were linked.
C27_LinksAreSymmetric ==
    [][(Links("createComponent") \/ Links("setParent"))
          => LinkedBothWays]_vars

\* the same for createComponent alone
CreateComponentLinksBothWays ==
    [][Links("createComponent") => LinkedBothWays]_vars

\* every name a caller may ask about: the registered ones and the others
AskedNames == CompNames \cup {"system", "stranger"}

RECURSIVE ChildrenOfAll(_, _)
\* the children of the components of a level, level by level order
ChildrenOfAll(comps, level) ==
    IF level = <<>> THEN <<>>
    ELSE GetChildren(comps, Head(level)) \o ChildrenOfAll(comps, Tail(level))

RECURSIVE LevelsBelow(_, _, _)
\* the children, then the children's children, and so on, `depth` levels
LevelsBelow(comps, level, depth) ==
    IF level = <<>> \/ depth = 0 THEN <<>>
    ELSE level \o LevelsBelow(comps, ChildrenOfAll(comps, level), depth - 1)

\* a is the chain of parents of name, nearest first, ending at a component
\* without a parent
IsChainToRoot(comps, name, a) ==
    /\ a # Diverges
    /\ \A i \in DOMAIN a :
          a[i] = GetParent(comps, IF i = 1 THEN name ELSE a[i - 1])
    /\ GetParent(comps, IF a = <<>> THEN name ELSE a[Len(a)]) = Undefined

\* C28 as stated: getDescendants(name) returns the breadth-first transitive
\* children, getAncestors(name) returns the chain from the nearest parent to
\* the root, and both return [] for an unregistered name.
C28_Traversals ==
    \A name \in AskedNames :
       IF ~HasComponent(components, name)
       THEN /\ GetDescendants(components, name) = <<>>
            /\ GetAncestors(components, name) = <<>>
       ELSE /\ GetDescendants(components, name)
                 = LevelsBelow(components, GetChildren(components, name),
                               MaxVisits)
            /\ IsChainToRoot(components, name,
                             GetAncestors(components, name))

\* no component is reached again by following the recorded children, or the
\* declared parents, from name
TreeBelow(comps, name) ==
    LevelsBelow(comps, GetChildren(comps, name), MaxVisits)
       = LevelsBelow(comps, GetChildren(comps, name), MaxVisits + 1)

RECURSIVE ReachesRoot(_, _, _)
ReachesRoot(comps, name, steps) ==
    \/ GetParent(comps, name) = Undefined
    \/ steps > 0 /\ ReachesRoot(comps, GetParent(comps, name), steps - 1)

\* C28: for a registered name below which the recorded children form no
\* cycle, getDescendants(name) returns the breadth-first transitive
\* children, and otherwise it does not return; for a registered name whose
\* declared parents lead to a component without a parent, getAncestors(name)
\* returns the chain from the nearest parent to that root, and otherwise it
\* does not return; both return [] for an unregistered name.
C28_TraversalsOfTrees ==
    \A name \in AskedNames :
       IF ~HasComponent(components, name)
       THEN /\ GetDescendants(components, name) = <<>>
            /\ GetAncestors(components, name) = <<>>
       ELSE /\ IF TreeBelow(components, name)
               THEN GetDescendants(components, name)
                      = LevelsBelow(components,
                                    GetChildren(components, name), MaxVisits)
               ELSE GetDescendants(components, name) = Diverges
            /\ IF ReachesRoot(components, name, Len(components))
               THEN IsChainToRoot(components, name,
                                  GetAncestors(components, name))
               ELSE GetAncestors(components, name) = Diverges

\* system has parent and child1 below it and child2 below parent: the
\* descendants of system are listed level by level and the ancestors of
\* child2 nearest first, while a stranger has neither
C28_Witness ==
    /\ GetDescendants(components, "system") = <<"parent", "child1", "child2">>
    /\ GetAncestors(components, "child2") = <<"parent", "system">>
    /\ GetDescendants(components, "stranger") = <<>>
    /\ GetAncestors(components, "stranger") = <<>>

(***************************************************************************)
(* Properties of setInstanceParent called twice.                           *)
(***************************************************************************)
\* the step is a setInstanceParent call that returned
Linked ==
    /\ opCount' # opCount
    /\ ret'.call = "setInstanceParent"
    /\ ret'.status = "resolved"

\* the (child, parent) arguments with which the call of this step was made
LinkedWith(child, parent) ==
    /\ Linked
    /\ SetInstanceParent(components, instances, child, parent) =
          [insts |-> instances', error |-> ""]

\* setInstanceParent(child, parent) on the stores `insts` changes no record
Repeatable(insts, child, parent) ==
    SetInstanceParent(components, insts, child, parent) =
       [insts |-> insts, error |-> ""]

\* C29: calling setInstanceParent(C, P) a second time with the same
\* arguments leaves every instance record as it was after the first call:
\* parentInstanceId, P's childInstanceIds, and the siblingInstanceIds and
\* siblingIndex of every instance
C29_SetInstanceParentIdempotent ==
    [][\A child \in RelIds("child") : \A parent \in RelIds("parent") :
          LinkedWith(child, parent) => Repeatable(instances', child, parent)]_vars

\* child_1 and child_2 were linked under parent_1, setInstanceParent being
\* the call that returned last: each lists the other as its sibling, the
\* parent lists both once, and linking child_2 again changes no record
C29_Witness ==
    /\ ret.status = "resolved"
    /\ ret.call = "setInstanceParent"
    /\ HasInstance(instances, "parent", "parent_1")
    /\ HasInstance(instances, "child", "child_1")
    /\ HasInstance(instances, "child", "child_2")
    /\ "childInstanceIds" \in DOMAIN MapGet(instances["parent"], "parent_1")
    /\ MapGet(instances["parent"], "parent_1").childInstanceIds =
          <<"child_1", "child_2">>
    /\ SiblingsOf(MapGet(instances["child"], "child_1")) = <<"child_2">>
    /\ SiblingsOf(MapGet(instances["child"], "child_2")) = <<"child_1">>
    /\ Repeatable(instances, "child_2", "parent_1")

(***************************************************************************)
(* Frame of the dispatcher on the instance stores.                         *)
(***************************************************************************)
\* component.instances.keys() of every component
InstanceIdsOf(insts) == [c \in DOMAIN insts |-> MapKeys(insts[c])]

\* C30: dispatch never creates or removes instances: with handlers that do
\* not call createInstance or clearInstances, the instance ids of every
\* component are the same before, during and after processEvents, whatever
\* events are queued, events addressed to instance ids that do not exist
\* included
C30_DispatchKeepsInstanceIds ==
    InstanceIdsOf(instances) = InstanceIdsOf(SetupInstances)

\* C30 witness: processEvents returned after handling an event addressed to
\* the instance "nonexistent", whose handler returned an update, and an
\* event whose update changed the record of person_1, and every component
\* holds the instance ids it was set up with
C30_Witness ==
    /\ Drained
    /\ \E seq \in Range(handled) :
          /\ appended[seq].instanceId = "nonexistent"
          /\ EventOf(seq) = "FELT_HUNGER"
    /\ GetInstance(instances, "person", "person_1") #
          GetInstance(SetupInstances, "person", "person_1")
    /\ InstanceIdsOf(instances) = InstanceIdsOf(SetupInstances)

(***************************************************************************)
(* processEvents on an empty queue.                                        *)
(***************************************************************************)
\* what a step of a call on the empty queue leaves alone: no handler is
\* invoked, no record changes, the queue stays empty
NothingHandled ==
    /\ handled' = handled
    /\ invoked' = invoked
    /\ instances' = instances
    /\ eventQueue' = <<>>
    /\ current' = None

\* C31: processEvents called on an empty queue invokes no handler, changes
\* no instance record, leaves the queue empty and resolves without error:
\* the call goes to the loop test and the loop test returns
C31_EmptyQueueIsNoOp ==
    /\ [][pc = "idle" /\ eventQueue = <<>> /\ <<pc, outcome>>' # <<pc, outcome>>
            => /\ NothingHandled
               /\ pc' = "loop"
               /\ outcome' = [status |-> "pending", error |-> ""]]_vars
    /\ [][pc = "loop" /\ eventQueue = <<>>
            => /\ NothingHandled
               /\ pc' = "idle"
               /\ outcome' = [status |-> "resolved", error |-> ""]]_vars

\* C31 witness: processEvents was called and resolved although no event was
\* ever queued: no handler was invoked and the records are as set up
C31_Witness ==
    /\ calls >= 1
    /\ Drained
    /\ appended = <<>>
    /\ handled = <<>>
    /\ outcome.error = ""
    /\ instances = SetupInstances

(***************************************************************************)
(* System.processEvents and the declared parents.                          *)
(***************************************************************************)
\* the entries a step pushed on the queue
Pushed == SubSeq(appended', Len(appended) + 1, Len(appended'))

\* the entries pushed are the sends the handler of the current event
\* returned, one entry per send, to the component and with the event the
\* send names
OnlySendsPushed ==
    \/ Pushed = <<>>
    \/ /\ "send" \in DOMAIN result
       /\ Len(Pushed) = Len(result.send)
       /\ \A j \in DOMAIN Pushed :
             /\ Pushed[j].component =
                   TargetComponent(result.send[j], current.component)
             /\ Pushed[j].event = result.send[j].event

\* the step invokes one handler, the one registered on the component of the
\* entry at the head of the queue for its event, and pushes nothing
HeadHandlerInvoked ==
    /\ pc = "loop"
    /\ eventQueue # <<>>
    /\ LET event == Shift(eventQueue).entry
       IN  /\ handled' = Append(handled, event.seq)
           /\ current' = event
           /\ result' = CallHandler(
                           eventHandlers[event.component][event.event],
                           event.instanceId, event.data, event.component,
                           instances)
    /\ appended' = appended

\* C32: System.processEvents invokes exactly one handler per popped event,
\* the handler registered on the event's target component, and never
\* forwards the event to the parent: no entry is handled twice, a popping
\* step pushes nothing, and the step that applies a handler's result pushes
\* only the sends the handler returned - nothing when it returned none,
\* whether or not the component has a declared parent
C32_NoForwardToParent ==
    /\ [](\A i, j \in DOMAIN handled : handled[i] = handled[j] => i = j)
    /\ [][/\ handled' # handled => HeadHandlerInvoked
          /\ pc = "loop" => appended' = appended
          /\ pc = "awaiting" /\ pc' # pc => OnlySendsPushed]_vars

\* C32 witness: SET_OFF_ALARM was queued for grandchild_richard, whose
\* component has the declared parent child and whose instance is linked to
\* child_thomas; the grandchild's handler, which returns no send, ran and
\* nothing else did: richard is awake, thomas and susan still sleep
C32_Witness ==
    /\ Drained
    /\ queued = 1
    /\ Len(appended) = 1
    /\ appended[1].component = "grandchild"
    /\ EventOf(1) = "SET_OFF_ALARM"
    /\ handled = <<1>>
    /\ GetParent(components, "grandchild") = "child"
    /\ HasHandler(eventHandlers, "child", "SET_OFF_ALARM")
    /\ Sleeping("grandchild_richard") = FALSE
    /\ Sleeping("child_thomas") = TRUE
    /\ Sleeping("parent_susan") = TRUE

(***************************************************************************)
(* The queue after a rejected processEvents call.                          *)
(***************************************************************************)
\* the entry whose handler was invoked last
LastHandled == handled[Len(handled)]

\* the queue holds entries as they were appended, in the order in which
\* they were appended
InOriginalOrder ==
    /\ \A i, j \in DOMAIN eventQueue :
          i < j => eventQueue[i].seq < eventQueue[j].seq
    /\ \A i \in DOMAIN eventQueue :
          /\ eventQueue[i].seq \in DOMAIN appended
          /\ eventQueue[i] =
                appended[eventQueue[i].seq] @@ [seq |-> eventQueue[i].seq]

\* C33: after processEvents has rejected because a handler threw, the
\* failing event is no longer in the queue and the events that were behind
\* it are still queued in their original order; a later processEvents call
\* handles exactly those remaining events, in that order, and does not
\* retry the failing one: the rejecting step leaves the queue as it is, a
\* handler is only ever invoked for the head of the queue, no entry is
\* handled twice, and a call that returns has handled every entry that has
\* a handler
C33_RestSurvivesRejection ==
    /\ [](Rejected =>
            /\ handled # <<>>
            /\ LastHandled \notin QueuedSeqs
            /\ \A q \in QueuedSeqs : LastHandled < q
            /\ InOriginalOrder)
    /\ [][ThrowPending /\ pc' # pc =>
            /\ eventQueue' = eventQueue
            /\ current.seq = LastHandled]_vars
    /\ [][handled' # handled =>
            /\ pc = "loop"
            /\ eventQueue # <<>>
            /\ Head(eventQueue).seq \notin Range(handled)
            /\ handled' = Append(handled, Head(eventQueue).seq)]_vars
    /\ [](Drained =>
            \A seq \in DOMAIN appended :
               IsHandleable(appended[seq]) => seq \in Range(handled))

\* C33 witness: the handler of ERROR_OCCURRED, queued first, threw and the
\* call rejected; a second call handled AGE_UPDATED, queued second, and
\* returned: the age of person_1 is 30 and ERROR_OCCURRED was handled once
C33_Witness ==
    /\ Drained
    /\ calls = 2
    /\ Len(appended) >= 2
    /\ EventOf(1) = "ERROR_OCCURRED"
    /\ EventOf(2) = "AGE_UPDATED"
    /\ Len(handled) >= 2
    /\ handled[1] = 1
    /\ handled[2] = 2
    /\ GetInstance(instances, "person", "person_1").age = 30

(***************************************************************************)
(* Properties of setInstanceParent on any two ids.                         *)
(***************************************************************************)
\* the step is a setInstanceParent(child, parent) call
LinkCalled(child, parent) ==
    /\ opCount' # opCount
    /\ ret'.call = "setInstanceParent"
    /\ ret'.value = <<child, parent>>

\* the component named by the prefix of the id is not registered, or the
\* instance is not in that component
Unknown(id) ==
    \/ ~HasComponent(components, Prefix(id))
    \/ ~HasInstance(instances, Prefix(id), id)

\* C35: setInstanceParent(childId, parentId) raises an error when the
\* component named by the prefix of either id is not registered, or when
\* the instance is not present in that component, and in every such case
\* no instance record is modified
C35_UnknownIdsRaise ==
    [][\A child, parent \in RelIds("parent") \cup RelIds("child")
                               \cup {"ghost_1"} :
          LinkCalled(child, parent) /\ (Unknown(child) \/ Unknown(parent))
             => /\ ret'.status = "rejected"
                /\ ret'.error # ""
                /\ instances' = instances]_vars

\* C35 witness: child_1 exists and was to be linked under ghost_1, whose
\* prefix names no component: the call raised and child_1 has no parent
C35_Witness ==
    /\ ret.status = "rejected"
    /\ ret.call = "setInstanceParent"
    /\ ret.value = <<"child_1", "ghost_1">>
    /\ ret.error = "Parent component not found"
    /\ HasInstance(instances, "child", "child_1")
    /\ "parentInstanceId" \notin
          DOMAIN MapGet(instances["child"], "child_1")

(***************************************************************************)
(* The lists of children after a move.                                     *)
(***************************************************************************)
\* every stored instance that a stored instance lists among its children
\* names the lister as its parent, and no list names an instance twice
ListedByParentOnly(insts) ==
    \A p \in IdsIn(insts) :
       LET list == ChildListIn(insts, p)
       IN  /\ \A i, j \in DOMAIN list : list[i] = list[j] => i = j
           /\ \A c \in Range(list) \cap IdsIn(insts) :
                 ParentIn(insts, c) = p

\* the step moved the stored instance c from the parent it had to another
Moved(c) ==
    /\ c \in EntryIds
    /\ c \in IdsIn(instances')
    /\ ParentOf(c) \in EntryIds
    /\ ParentIn(instances', c) # ParentOf(c)
    /\ ret'.call = "setInstanceParent"

ReferredIn(insts, id) ==
    (IF ParentIn(insts, id) = Undefined THEN {} ELSE {ParentIn(insts, id)})
       \cup Range(ChildListIn(insts, id)) \cup ListedIn(insts, id)

\* every id a record refers to names a stored instance
IntegrityIn(insts) ==
    \A a \in IdsIn(insts) : ReferredIn(insts, a) \subseteq IdsIn(insts)

\* C37: in every state reachable by any sequence of createInstance,
\* setInstanceParent and clearInstances, every id stored in an instance's
\* parentInstanceId, childInstanceIds or siblingInstanceIds names an
\* instance that currently exists
C37_ReferentialIntegrity == IntegrityIn(instances)

\* the part of it that is about clearInstances: a clearInstances call on
\* stores whose references all name stored instances leaves such stores
ClearKeepsIntegrity ==
    [][(/\ opCount' # opCount
        /\ ret'.call = "clearInstances"
        /\ IntegrityIn(instances)) => IntegrityIn(instances')]_vars

(***************************************************************************)
(* Cycles of the instance parent relation.                                 *)
(***************************************************************************)
RECURSIVE ChainIn(_, _, _)
\* the ids met by following parentInstanceId from id, at most fuel times
ChainIn(insts, id, fuel) ==
    IF fuel = 0 \/ id \notin IdsIn(insts) \/ ParentIn(insts, id) = Undefined
    THEN {}
    ELSE {ParentIn(insts, id)}
            \cup ChainIn(insts, ParentIn(insts, id), fuel - 1)

\* the ancestors of id through the parentInstanceId links
AncestorsIn(insts, id) == ChainIn(insts, id, Cardinality(IdsIn(insts)))

\* no stored instance is its own parent or its own ancestor
AcyclicIn(insts) == \A a \in IdsIn(insts) : a \notin AncestorsIn(insts, a)

\* C38: setInstanceParent never creates a cycle in the instance parent
\* relation: in every reachable state no instance is its own parent or its
\* own ancestor through the parentInstanceId links
C38_NoInstanceCycle == AcyclicIn(instances)

\* C38 as the code has it: setInstanceParent makes no cycle test.  A call
\* on two stored instances returns and stores the edge it is given, and on
\* stores without a cycle it creates one exactly when the child is linked
\* under itself or under one of its own descendants
C38_CycleWhenLinkedBelowItself ==
    [][\A child, parent \in RelIds("parent") \cup RelIds("child")
                               \cup {"ghost_1"} :
          (LinkCalled(child, parent) /\ ~Unknown(child) /\ ~Unknown(parent))
             => /\ ret'.status = "resolved"
                /\ ParentIn(instances', child) = parent
                /\ AcyclicIn(instances) =>
                      (AcyclicIn(instances') <=>
                         (/\ child # parent
                          /\ child \notin AncestorsIn(instances, parent)))]_vars

\* C38 witness: child_1 was linked under parent_1 and parent_1 under
\* child_1: each is the parent of the other and its own ancestor
C38_Witness ==
    /\ ret.status = "resolved"
    /\ ret.call = "setInstanceParent"
    /\ {"parent_1", "child_1"} \subseteq EntryIds
    /\ ParentOf("child_1") = "parent_1"
    /\ ParentOf("parent_1") = "child_1"
    /\ "child_1" \in AncestorsIn(instances, "child_1")

(***************************************************************************)
(* Termination of the component traversals.                                *)
(***************************************************************************)
\* a traversal returned, and what it returned names no component twice
ListsOnce(list) ==
    /\ list # Diverges
    /\ \A i, j \in DOMAIN list : list[i] = list[j] => i = j

\* the registered components that record name among their children
ListersOf(comps, name) ==
    {c \in Range(MapKeys(comps)) : name \in Range(MapGet(comps, c).children)}

\* C39: getAncestors and getDescendants terminate for every component
\* topology that can be built with createComponent (re-creating a
\* registered name with a parent included) and setParent, and list no
\* component more than once
C39_TraversalsTerminate ==
    \A name \in AskedNames :
       /\ ListsOnce(GetAncestors(components, name))
       /\ ListsOnce(GetDescendants(components, name))

\* C39 as the code has it: neither traversal remembers what it has visited.
\* getAncestors returns exactly when the declared parents lead to a
\* component without a parent, and then lists no component twice;
\* getDescendants returns exactly when no component is reached again through
\* the recorded children, and then lists no component twice provided no
\* component is recorded among the children of two components
C39_TerminateWithoutCycles ==
    \A name \in AskedNames :
       LET registered == HasComponent(components, name)
           ancestors == GetAncestors(components, name)
           descendants == GetDescendants(components, name)
       IN  /\ ancestors = Diverges <=>
                 (/\ registered
                  /\ ~ReachesRoot(components, name, Len(components)))
           /\ ancestors # Diverges => ListsOnce(ancestors)
           /\ descendants = Diverges <=>
                 (registered /\ ~TreeBelow(components, name))
           /\ (/\ descendants # Diverges
               /\ \A c \in Range(MapKeys(components)) :
                     Cardinality(ListersOf(components, c)) <= 1)
                 => ListsOnce(descendants)

\* C39 witness: child1 was created under parent and created again under
\* system: both record it, getDescendants("system") returns and lists it
\* twice, and getAncestors("child1") returns
C39_Witness ==
    /\ ret.status = "resolved"
    /\ ret.call = "createComponent"
    /\ ret.value = [name |-> "child1", parent |-> "system"]
    /\ ListersOf(components, "child1") = {"system", "parent"}
    /\ GetDescendants(components, "system") = <<"parent", "child1", "child1">>
    /\ GetAncestors(components, "child1") = <<"system">>

(***************************************************************************)
(* Two drain loops on one queue.                                           *)
(***************************************************************************)
\* the locals of every invocation: the one that ran last and the others
Invocations ==
    <<[pc |-> pc, current |-> current, result |-> result,
       outcome |-> outcome]>> \o frames

\* the invocations suspended at `await handler(...)`
Suspended == {i \in DOMAIN Invocations : Invocations[i].pc = "awaiting"}

\* C34: when processEvents is invoked again while an earlier invocation is
\* suspended awaiting a handler, the drain loops share the one queue and
\* every queued event is popped and handled by exactly one of them: no
\* entry is handled twice, every popped entry that has a handler was
\* handled, the suspended invocations await different entries, each of
\* which has left the queue, and once every invocation has returned with
\* the queue empty every entry that has a handler was handled
C34_HandledByOneLoop ==
    /\ \A i, j \in DOMAIN handled : handled[i] = handled[j] => i = j
    /\ Range(handled) = {s \in PoppedSeqs : IsHandleable(appended[s])}
    /\ \A i, j \in Suspended :
          Invocations[i].current.seq = Invocations[j].current.seq => i = j
    /\ \A i \in Suspended :
          /\ Invocations[i].current.seq \in Range(handled)
          /\ Invocations[i].current.seq \notin QueuedSeqs
    /\ (eventQueue = <<>> /\ Suspended = {} /\ pc = "idle") =>
          Range(handled) =
             {s \in DOMAIN appended : IsHandleable(appended[s])}

\* C34 witness: two events were queued, the first invocation is suspended
\* awaiting the handler of one and the second, started meanwhile, awaiting
\* the handler of the other
C34_Witness ==
    /\ queued = 2
    /\ Len(frames) = 1
    /\ Suspended = {1, 2}
    /\ {Invocations[1].current.seq, Invocations[2].current.seq} = {1, 2}
    /\ handled = <<1, 2>>

====
